---- MODULE Spec2Model ----
(***************************************************************************)
(* A model of the bharat-restro-mvp pipeline: the entity resolver          *)
(* (app/resolve.py), the SQLite store (app/persist.py), the pipeline loop  *)
(* (app/cli.py), the field normaliser (app/normalize.py) and the field     *)
(* extractors (app/extract/).                                              *)
(*                                                                         *)
(* Conventions.                                                            *)
(*  - A Python str is a sequence of one-character strings; "" is <<>>.     *)
(*  - A Python list is a sequence; a dict is a function whose DOMAIN is    *)
(*    the set of keys present.                                             *)
(*  - None (SQL NULL) is the value None for str/list/dict valued fields    *)
(*    and NoneNum for float valued fields (lat, lon).                      *)
(*  - Similarity scores are exact rationals: the binary floating point     *)
(*    rounding of the source is not modelled.                              *)
(*  - A latitude is the arc length in metres from the equator along one    *)
(*    meridian (all modelled points share one longitude), where the        *)
(*    haversine distance of the source is exactly the difference.          *)
(***************************************************************************)
EXTENDS Integers, Sequences, FiniteSets, TLC

Max(a, b) == IF a >= b THEN a ELSE b

Min(a, b) == IF a <= b THEN a ELSE b

Abs(a) == IF a >= 0 THEN a ELSE 0 - a

None == <<"None">>

NoneNum == 0 - 1

(***************************************************************************)
(* Python str methods                                                      *)
(***************************************************************************)
LowerMap ==
  [A |-> "a", B |-> "b", C |-> "c", D |-> "d", E |-> "e", F |-> "f", G |-> "g",
   H |-> "h", I |-> "i", J |-> "j", K |-> "k", L |-> "l", M |-> "m", N |-> "n",
   O |-> "o", P |-> "p", Q |-> "q", R |-> "r", S |-> "s", T |-> "t", U |-> "u",
   V |-> "v", W |-> "w", X |-> "x", Y |-> "y", Z |-> "z"]

UpperMap ==
  [a |-> "A", b |-> "B", c |-> "C", d |-> "D", e |-> "E", f |-> "F", g |-> "G",
   h |-> "H", i |-> "I", j |-> "J", k |-> "K", l |-> "L", m |-> "M", n |-> "N",
   o |-> "O", p |-> "P", q |-> "Q", r |-> "R", s |-> "S", t |-> "T", u |-> "U",
   v |-> "V", w |-> "W", x |-> "X", y |-> "Y", z |-> "Z"]

LowerChar(c) == IF c \in DOMAIN LowerMap THEN LowerMap[c] ELSE c

UpperChar(c) == IF c \in DOMAIN UpperMap THEN UpperMap[c] ELSE c

IsAlpha(c) == c \in DOMAIN LowerMap \/ c \in DOMAIN UpperMap

IsDigit(c) == c \in {"0", "1", "2", "3", "4", "5", "6", "7", "8", "9"}

IsSpace(c) == c \in {" ", "\t", "\n"}

Lower(s) == [i \in 1..Len(s) |-> LowerChar(s[i])]

RECURSIVE LStrip(_)
LStrip(s) == IF s # <<>> /\ IsSpace(s[1]) THEN LStrip(Tail(s)) ELSE s

RECURSIVE RStrip(_)
RStrip(s) ==
  IF s # <<>> /\ IsSpace(s[Len(s)]) THEN RStrip(SubSeq(s, 1, Len(s) - 1)) ELSE s

Strip(s) == RStrip(LStrip(s))

StartsWithAt(s, p, i) ==
  /\ i + Len(p) - 1 <= Len(s)
  /\ \A k \in 1..Len(p) : s[i + k - 1] = p[k]

StartsWith(s, p) == StartsWithAt(s, p, 1)

EndsWith(s, p) == Len(p) <= Len(s) /\ StartsWithAt(s, p, Len(s) - Len(p) + 1)

Contains(s, p) == \E i \in 1..(Len(s) - Len(p) + 1) : StartsWithAt(s, p, i)

RECURSIVE Replace(_, _)
Replace(s, old) ==
  IF Len(s) < Len(old) THEN s
  ELSE IF StartsWith(s, old) THEN Replace(SubSeq(s, Len(old) + 1, Len(s)), old)
  ELSE <<s[1]>> \o Replace(Tail(s), old)

RECURSIVE Digits(_)
Digits(s) ==
  IF s = <<>> THEN <<>>
  ELSE IF IsDigit(s[1]) THEN <<s[1]>> \o Digits(Tail(s))
  ELSE Digits(Tail(s))

Last10(s) == SubSeq(s, Len(s) - 9, Len(s))

Take(s, n) == SubSeq(s, 1, Min(n, Len(s)))

EmptyDict == <<"dict", <<>>>>

Truthy(v) == v # None /\ v # <<>> /\ v # EmptyDict

TruthyNum(v) == v # NoneNum /\ v # 0

Get(d, k, dflt) == IF k \in DOMAIN d THEN d[k] ELSE dflt

(***************************************************************************)
(* Python floats: IEEE 754 binary64 with round-to-nearest-even.            *)
(*                                                                         *)
(* A natural number of any size is the sequence of its digits in base      *)
(* 2^15, least significant first and without leading zeros; a float is the *)
(* record [m, e] standing for m * 2^e with 2^52 <= m < 2^53, and           *)
(* [m |-> <<>>, e |-> 0] is 0.0.  Only the finite non-negative floats in   *)
(* the normal range occur.                                                 *)
(***************************************************************************)
LimbBase == 2^15

RECURSIVE BigNorm(_)
BigNorm(a) ==
  IF a = <<>> THEN <<>>
  ELSE IF a[Len(a)] = 0 THEN BigNorm(SubSeq(a, 1, Len(a) - 1))
  ELSE a

RECURSIVE ToBig(_)
ToBig(n) == IF n = 0 THEN <<>> ELSE <<n % LimbBase>> \o ToBig(n \div LimbBase)

Limb0(a) == IF a = <<>> THEN 0 ELSE a[1]

Rest(a) == IF a = <<>> THEN <<>> ELSE Tail(a)

RECURSIVE BigAddC(_, _, _)
BigAddC(a, b, carry) ==
  IF a = <<>> /\ b = <<>> THEN ToBig(carry)
  ELSE <<(Limb0(a) + Limb0(b) + carry) % LimbBase>>
       \o BigAddC(Rest(a), Rest(b), (Limb0(a) + Limb0(b) + carry) \div LimbBase)

BigAdd(a, b) == BigAddC(a, b, 0)

RECURSIVE BigMulSmallC(_, _, _)
BigMulSmallC(a, k, carry) ==
  IF a = <<>> THEN ToBig(carry)
  ELSE <<(a[1] * k + carry) % LimbBase>>
       \o BigMulSmallC(Tail(a), k, (a[1] * k + carry) \div LimbBase)

BigMulSmall(a, k) == BigNorm(BigMulSmallC(a, k, 0))

RECURSIVE BigMul(_, _)
BigMul(a, b) ==
  IF b = <<>> \/ a = <<>> THEN <<>>
  ELSE BigAdd(BigMulSmall(a, b[1]), <<0>> \o BigMul(a, Tail(b)))

RECURSIVE RemAbove(_, _, _)
RemAbove(a, k, i) ==
  IF i > Len(a) THEN 0 ELSE (RemAbove(a, k, i + 1) * LimbBase + a[i]) % k

BigDivSmall(a, k) ==
  BigNorm([i \in 1..Len(a) |-> (RemAbove(a, k, i + 1) * LimbBase + a[i]) \div k] \o <<>>)

BigModSmall(a, k) == RemAbove(a, k, 1)

RECURSIVE BigLess(_, _)
BigLess(a, b) ==
  IF Len(a) # Len(b) THEN Len(a) < Len(b)
  ELSE IF a = <<>> THEN FALSE
  ELSE IF a[Len(a)] # b[Len(b)] THEN a[Len(a)] < b[Len(b)]
  ELSE BigLess(SubSeq(a, 1, Len(a) - 1), SubSeq(b, 1, Len(b) - 1))

BigLeq(a, b) == ~BigLess(b, a)

RECURSIVE BitLenLimb(_)
BitLenLimb(x) == IF x = 0 THEN 0 ELSE 1 + BitLenLimb(x \div 2)

BitLen(a) == IF a = <<>> THEN 0 ELSE 15 * (Len(a) - 1) + BitLenLimb(a[Len(a)])

Zeros(n) == [i \in 1..n |-> 0] \o <<>>

ShiftLeft(a, s) ==
  IF a = <<>> THEN <<>> ELSE Zeros(s \div 15) \o BigMulSmall(a, 2^(s % 15))

ShiftRight(a, s) ==
  IF s \div 15 >= Len(a) THEN <<>>
  ELSE BigDivSmall(SubSeq(a, (s \div 15) + 1, Len(a)), 2^(s % 15))

IsOdd(a) == a # <<>> /\ a[1] % 2 = 1

F_ZERO == [m |-> <<>>, e |-> 0]

Renorm(m, e) ==
  IF BitLen(m) = 54 THEN [m |-> ShiftRight(m, 1), e |-> e + 1] ELSE [m |-> m, e |-> e]

(* n * 2^e with n of 53 + s bits, s >= 1: the nearest float, ties to even. *)
RoundShift(n, e, s) ==
  IF IsOdd(ShiftRight(n, s - 1))
     /\ (IsOdd(ShiftRight(n, s)) \/ ShiftLeft(ShiftRight(n, s - 1), s - 1) # n)
  THEN Renorm(BigAdd(ShiftRight(n, s), <<1>>), e + s)
  ELSE [m |-> ShiftRight(n, s), e |-> e + s]

RoundBits(n, e, bits) ==
  IF bits = 0 THEN F_ZERO
  ELSE IF bits <= 53 THEN [m |-> ShiftLeft(n, 53 - bits), e |-> e - (53 - bits)]
  ELSE RoundShift(n, e, bits - 53)

RoundBig(n, e) == RoundBits(n, e, BitLen(n))

FAddAt(x, y, e) ==
  RoundBig(BigAdd(ShiftLeft(x.m, x.e - e), ShiftLeft(y.m, y.e - e)), e)

FAdd(x, y) ==
  IF x.m = <<>> THEN y
  ELSE IF y.m = <<>> THEN x
  ELSE FAddAt(x, y, Min(x.e, y.e))

FMul(x, y) == RoundBig(BigMul(x.m, y.m), x.e + y.e)

(* The float nearest to n * 2^e / k, for a divisor k below 2^15: the       *)
(* quotient is cut after 75 more bits and a sticky bit tells whether the   *)
(* division left a remainder.                                              *)
RoundQuotient(n, k, e) ==
  RoundBig(BigAdd(ShiftLeft(BigDivSmall(ShiftLeft(n, 75), k), 1),
                  ToBig(IF BigModSmall(ShiftLeft(n, 75), k) = 0 THEN 0 ELSE 1)),
           e - 76)

(* The float literal n/k written in decimal, as 0.4 is FRatio(4, 10). *)
FRatio(n, k) == RoundQuotient(ToBig(n), k, 0)

FDivSmall(x, k) == RoundQuotient(x.m, k, x.e)

FLess(x, y) ==
  IF y.m = <<>> THEN FALSE
  ELSE IF x.m = <<>> THEN TRUE
  ELSE IF x.e # y.e THEN x.e < y.e
  ELSE BigLess(x.m, y.m)

FMin(x, y) == IF FLess(y, x) THEN y ELSE x

(***************************************************************************)
(* rapidfuzz fuzz.ratio: 100 * 2*LCS(s, t) / (len(s) + len(t)), the        *)
(* normalised InDel similarity as a percentage, the float nearest to it.   *)
(***************************************************************************)
SetMax(S) == CHOOSE x \in S : \A y \in S : y <= x

(* Row i of the LCS table from row i-1: entry j+1 is LCS(s[1..i], t[1..j]), *)
(* the best of leaving s[i] out and of pairing it with an equal t[k].      *)
LcsRow(prev, ch, t) ==
  [j \in 1..(Len(t) + 1) |->
     SetMax({prev[j]} \cup {prev[k] + 1 : k \in {k \in 1..(j - 1) : t[k] = ch}})]
  \o <<>>

RECURSIVE LcsRows(_, _, _)
LcsRows(s, t, prev) ==
  IF s = <<>> THEN prev
  ELSE CHOOSE last_row \in {LcsRows(Tail(s), t, row) : row \in {LcsRow(prev, s[1], t)}} : TRUE

LCS(s, t) == LcsRows(s, t, [j \in 1..(Len(t) + 1) |-> 0] \o <<>>)[Len(t) + 1]

FuzzRatio(s, t) ==
  IF Len(s) + Len(t) = 0 THEN FRatio(100, 1)
  ELSE FRatio(200 * LCS(s, t), Len(s) + Len(t))

(***************************************************************************)
(* app/resolve.py: similarity scoring                                      *)
(*                                                                         *)
(* Scores and similarities are floats.  A latitude is a number of metres   *)
(* along one meridian, so that the haversine distance of two points is the *)
(* difference of their latitudes, and INF is float('inf').                 *)
(***************************************************************************)
W_NAME == FRatio(4, 10)

W_GEO_NEAR == FRatio(3, 10)

W_GEO_MID == FRatio(15, 100)

W_PHONE == FRatio(2, 10)

W_WEBSITE == FRatio(1, 10)

W_ADDRESS == FRatio(1, 10)

THRESHOLD == FRatio(7, 10)

F_ONE == FRatio(1, 1)

NEAR_M == 500

MID_M == 2000

INF == 1000000000

calculate_name_similarity(name1, name2) ==
  IF ~Truthy(name1) \/ ~Truthy(name2) THEN F_ZERO
  ELSE FDivSmall(FuzzRatio(Strip(Lower(name1)), Strip(Lower(name2))), 100)

calculate_distance_km(lat1, lon1, lat2, lon2) == Abs(lat2 - lat1)

PhoneMatch(phone1, phone2) ==
  IF Truthy(phone1) /\ Truthy(phone2)
  THEN LET phone1_digits == Digits(phone1)
           phone2_digits == Digits(phone2)
       IN  IF Len(phone1_digits) >= 10 /\ Len(phone2_digits) >= 10
           THEN Last10(phone1_digits) = Last10(phone2_digits)
           ELSE FALSE
  ELSE FALSE

NormWeb(w) ==
  Replace(Replace(Replace(Lower(w), <<"h","t","t","p",":","/","/">>),
                  <<"h","t","t","p","s",":","/","/">>),
          <<"w","w","w",".">>)

WebsiteMatch(website1, website2) ==
  IF Truthy(website1) /\ Truthy(website2)
  THEN NormWeb(website1) = NormWeb(website2)
  ELSE FALSE

Evidence(restaurant1, restaurant2) ==
  LET name1 == Get(restaurant1, "canonical_name", <<>>)
      name2 == Get(restaurant2, "canonical_name", <<>>)
      lat1 == Get(restaurant1, "lat", NoneNum)
      lon1 == Get(restaurant1, "lon", NoneNum)
      lat2 == Get(restaurant2, "lat", NoneNum)
      lon2 == Get(restaurant2, "lon", NoneNum)
      addr1 == Get(restaurant1, "address_full", <<>>)
      addr2 == Get(restaurant2, "address_full", <<>>)
  IN  [name_similarity |->
         IF Truthy(name1) /\ Truthy(name2)
         THEN calculate_name_similarity(name1, name2)
         ELSE F_ZERO,
       distance_km |->
         IF \A coord \in {lat1, lon1, lat2, lon2} : coord # NoneNum
         THEN calculate_distance_km(lat1, lon1, lat2, lon2)
         ELSE INF,
       phone_match |-> PhoneMatch(Get(restaurant1, "phone", <<>>),
                                  Get(restaurant2, "phone", <<>>)),
       website_match |-> WebsiteMatch(Get(restaurant1, "website", <<>>),
                                      Get(restaurant2, "website", <<>>)),
       address_similarity |->
         IF Truthy(addr1) /\ Truthy(addr2)
         THEN calculate_name_similarity(addr1, addr2)
         ELSE F_ZERO]

GeoWeightMutFar(distance_km) ==
  IF distance_km < NEAR_M THEN W_GEO_NEAR ELSE W_GEO_MID

GeoWeight(distance_km) ==
  IF distance_km < NEAR_M THEN W_GEO_NEAR
  ELSE IF distance_km < MID_M THEN W_GEO_MID
  ELSE F_ZERO

(* score = 0.0 and the five += of the function, in their order. *)
ScoreSum(ev) ==
  FAdd(FAdd(FAdd(FAdd(FAdd(F_ZERO, FMul(ev.name_similarity, W_NAME)),
                      GeoWeight(ev.distance_km)),
                 IF ev.phone_match THEN W_PHONE ELSE F_ZERO),
            IF ev.website_match THEN W_WEBSITE ELSE F_ZERO),
       FMul(ev.address_similarity, W_ADDRESS))

OverallScoreMutNoClamp(ev) == ScoreSum(ev)

OverallScore(ev) == FMin(ScoreSum(ev), F_ONE)

IsSameMutGE(score) == ~FLess(score, THRESHOLD)

IsSame(score) == FLess(THRESHOLD, score)

Verdict(ev, score) == [is_same |-> IsSame(score), score |-> score, evidence |-> ev]

JudgeEvidence(ev) == Verdict(ev, OverallScore(ev))

is_likely_same_restaurant(restaurant1, restaurant2) ==
  JudgeEvidence(Evidence(restaurant1, restaurant2))

(***************************************************************************)
(* app/persist.py: rows, JSON columns and the queries                      *)
(*                                                                         *)
(* The restaurants table is the sequence of its rows in rowid (insertion)  *)
(* order, the order in which an unordered SELECT of SQLite scans it.       *)
(* json.dumps(v) is the text <<"[", v, "]">> of a list and                 *)
(* <<"{", d, "}">> of a dict; a dict held in a field is <<"dict", d>>.     *)
(***************************************************************************)
Columns ==
  {"restaurant_id", "canonical_name", "address_full", "pincode", "lat", "lon",
   "phone", "website", "cuisines", "hours", "updated_at"}

NumColumns == {"lat", "lon", "updated_at"}

NullOf(k) == IF k \in NumColumns THEN NoneNum ELSE None

IsDict(v) == Len(v) = 2 /\ v[1] = "dict"

IsJsonText(v) == Len(v) = 3 /\ v[1] \in {"[", "{"}

IsList(v) == v # None /\ ~IsDict(v) /\ ~IsJsonText(v)

JsonDumpsList(v) == <<"[", v, "]">>

JsonDumpsDict(v) == <<"{", v[2], "}">>

JsonLoads(text) == IF text[1] = "[" THEN text[2] ELSE <<"dict", text[2]>>

to_dict(r) ==
  [k \in Columns |->
     IF k = "cuisines" THEN (IF Truthy(r.cuisines) THEN JsonLoads(r.cuisines) ELSE <<>>)
     ELSE IF k = "hours" THEN (IF Truthy(r.hours) THEN JsonLoads(r.hours) ELSE EmptyDict)
     ELSE r[k]]

ILike(col, pat) == col # None /\ Contains(Lower(col), Lower(pat))

search_restaurants_name(st, name, limit) ==
  LET Test(r) == ILike(r.canonical_name, name)
      All(r) == TRUE
  IN  IF Truthy(name) THEN Take(SelectSeq(st, Test), limit)
      ELSE Take(SelectSeq(st, All), limit)

search_restaurants_city(st, city, limit) ==
  LET Test(r) == ILike(r.address_full, city)
      All(r) == TRUE
  IN  IF Truthy(city) THEN Take(SelectSeq(st, Test), limit)
      ELSE Take(SelectSeq(st, All), limit)

get_all_restaurants(st, limit) == IF limit # 0 THEN Take(st, limit) ELSE st

StoredIds(st) == {st[i].restaurant_id : i \in 1..Len(st)}

(***************************************************************************)
(* app/resolve.py: candidate generation and the best match                 *)
(***************************************************************************)
NAME_LIMIT == 10

CITY_LIMIT == 20

PHONE_LIMIT == 100

Cities ==
  << <<"b","a","n","g","a","l","o","r","e">>,
     <<"m","u","m","b","a","i">>,
     <<"d","e","l","h","i">>,
     <<"c","h","e","n","n","a","i">>,
     <<"h","y","d","e","r","a","b","a","d">> >>

FirstCity(address) ==
  LET hits == {i \in 1..Len(Cities) : Contains(Lower(address), Cities[i])}
  IN  IF hits = {} THEN None
      ELSE Cities[CHOOSE i \in hits : \A j \in hits : i <= j]

ExactMatches(st, new_restaurant) ==
  search_restaurants_name(st, Get(new_restaurant, "canonical_name", <<>>), NAME_LIMIT)

CityMatches(st, new_restaurant) ==
  LET lat == Get(new_restaurant, "lat", NoneNum)
      lon == Get(new_restaurant, "lon", NoneNum)
      address == Get(new_restaurant, "address_full", <<>>)
  IN  IF TruthyNum(lat) /\ TruthyNum(lon) /\ Truthy(address)
         /\ FirstCity(address) # None
      THEN search_restaurants_city(st, FirstCity(address), CITY_LIMIT)
      ELSE <<>>

PhoneMatches(st, new_restaurant) ==
  LET phone == Get(new_restaurant, "phone", <<>>)
      Test(r) == r.phone = phone
  IN  IF Truthy(phone) THEN SelectSeq(get_all_restaurants(st, PHONE_LIMIT), Test)
      ELSE <<>>

RECURSIVE Dedup(_, _)
Dedup(candidates, seen_ids) ==
  IF candidates = <<>> THEN <<>>
  ELSE IF candidates[1].restaurant_id \in seen_ids
       THEN Dedup(Tail(candidates), seen_ids)
       ELSE <<candidates[1]>>
            \o Dedup(Tail(candidates), seen_ids \cup {candidates[1].restaurant_id})

UniqueCandidates(st, new_restaurant) ==
  IF ~Truthy(Get(new_restaurant, "canonical_name", <<>>)) THEN <<>>
  ELSE Dedup(ExactMatches(st, new_restaurant)
             \o CityMatches(st, new_restaurant)
             \o PhoneMatches(st, new_restaurant), {})

BetterMutGE(is_same, score, best_score) == is_same /\ ~FLess(score, best_score)

Better(is_same, score, best_score) == is_same /\ FLess(best_score, score)

RECURSIVE BestMatch(_, _, _, _)
ScoreCandidate(new_restaurant, candidates, best_match, best_score, res) ==
  IF Better(res.is_same, res.score, best_score)
  THEN BestMatch(new_restaurant, Tail(candidates), candidates[1].restaurant_id, res.score)
  ELSE BestMatch(new_restaurant, Tail(candidates), best_match, best_score)

BestMatch(new_restaurant, candidates, best_match, best_score) ==
  IF candidates = <<>> THEN best_match
  ELSE ScoreCandidate(new_restaurant, candidates, best_match, best_score,
                      is_likely_same_restaurant(new_restaurant, to_dict(candidates[1])))

find_existing_restaurant(st, new_restaurant) ==
  IF ~Truthy(Get(new_restaurant, "canonical_name", <<>>)) THEN None
  ELSE BestMatch(new_restaurant, UniqueCandidates(st, new_restaurant),
                 None, F_ZERO)

UuidNames == <<"uuid-1", "uuid-2", "uuid-3", "uuid-4", "uuid-5", "uuid-6">>

uuid4(n) == <<UuidNames[n]>>

OrNewIdMutSame(existing_id, n) ==
  IF Truthy(existing_id) THEN existing_id ELSE uuid4(1)

OrNewId(existing_id, n) == IF Truthy(existing_id) THEN existing_id ELSE uuid4(n)

resolve_restaurant_entity(st, restaurant_data, n) ==
  OrNewId(find_existing_restaurant(st, restaurant_data), n)

(***************************************************************************)
(* app/normalize.py                                                        *)
(***************************************************************************)
IsMobileLead(c) == c \in {"6", "7", "8", "9"}

Plus91 == <<"+", "9", "1">>

FirstMobileWindowMutLast(digits) ==
  LET hits == {i \in 1..(Len(digits) - 9) : IsMobileLead(digits[i])}
  IN  IF hits = {} THEN 0 ELSE CHOOSE i \in hits : \A j \in hits : i >= j

FirstMobileWindow(digits) ==
  LET hits == {i \in 1..(Len(digits) - 9) : IsMobileLead(digits[i])}
  IN  IF hits = {} THEN 0 ELSE CHOOSE i \in hits : \A j \in hits : i <= j

normalize_phone(phone) ==
  IF ~Truthy(phone) THEN None
  ELSE LET digits == Digits(phone)
           n == Len(digits)
       IN  IF n = 10 /\ IsMobileLead(digits[1]) THEN Plus91 \o digits
           ELSE IF n = 12 /\ StartsWith(digits, <<"9", "1">>) /\ IsMobileLead(digits[3])
                THEN <<"+">> \o digits
           ELSE IF n = 13 /\ StartsWith(digits, <<"9", "1">>) /\ IsMobileLead(digits[4])
                THEN Plus91 \o SubSeq(digits, 4, n)
           ELSE IF n >= 10 /\ FirstMobileWindow(digits) # 0
                THEN Plus91 \o SubSeq(digits, FirstMobileWindow(digits),
                                      FirstMobileWindow(digits) + 9)
           ELSE IF n >= 10 THEN Strip(phone)
           ELSE None

normalize_pincode(pincode) ==
  IF ~Truthy(pincode) THEN None
  ELSE IF Len(Digits(pincode)) = 6 THEN Digits(pincode)
  ELSE None

RECURSIVE CollapseWs(_)
CollapseWs(s) ==
  IF s = <<>> THEN <<>>
  ELSE IF IsSpace(s[1]) THEN <<" ">> \o CollapseWs(LStrip(s))
  ELSE <<s[1]>> \o CollapseWs(Tail(s))

RECURSIVE TitleFrom(_, _)
TitleFrom(s, prev_cased) ==
  IF s = <<>> THEN <<>>
  ELSE <<IF ~IsAlpha(s[1]) THEN s[1]
         ELSE IF prev_cased THEN LowerChar(s[1]) ELSE UpperChar(s[1])>>
       \o TitleFrom(Tail(s), IsAlpha(s[1]))

Title(s) == TitleFrom(s, FALSE)

prefixes_to_remove ==
  << <<"t","h","e"," ">>, <<"h","o","t","e","l"," ">>, <<"n","e","w"," ">> >>

suffixes_to_remove ==
  << <<" ","r","e","s","t","a","u","r","a","n","t">>, <<" ","h","o","t","e","l">>,
     <<" ","d","h","a","b","a">> >>

FirstIndex(hits) == IF hits = {} THEN 0 ELSE CHOOSE i \in hits : \A j \in hits : i <= j

normalize_restaurant_name(name) ==
  IF ~Truthy(name) THEN <<>>
  ELSE LET stripped == Strip(name)
           name_lower == Lower(stripped)
           p == FirstIndex({i \in 1..Len(prefixes_to_remove) :
                              StartsWith(name_lower, prefixes_to_remove[i])})
           q == FirstIndex({i \in 1..Len(suffixes_to_remove) :
                              EndsWith(name_lower, suffixes_to_remove[i])})
           noprefix == IF p = 0 THEN stripped
                       ELSE SubSeq(stripped, Len(prefixes_to_remove[p]) + 1, Len(stripped))
           nosuffix == IF q = 0 THEN noprefix
                       ELSE SubSeq(noprefix, 1, Len(noprefix) - Len(suffixes_to_remove[q]))
       IN  Title(Strip(CollapseWs(nosuffix)))

normalize_website_url(url) ==
  IF ~Truthy(url) THEN None
  ELSE LET stripped == Strip(url)
           full == IF stripped # <<>>
                      /\ ~StartsWith(stripped, <<"h","t","t","p",":","/","/">>)
                      /\ ~StartsWith(stripped, <<"h","t","t","p","s",":","/","/">>)
                   THEN <<"h","t","t","p","s",":","/","/">> \o stripped
                   ELSE stripped
       IN  IF Len(full) < 10 \/ ~Contains(full, <<".">>) THEN None ELSE full

standard_vocab ==
  {"NORTH_INDIAN", "SOUTH_INDIAN", "CHINESE", "STREET_FOOD", "BAKERY", "CAFE",
   "ITALIAN", "MUGHLAI", "SEAFOOD"}

(* The rows of cuisine_mapping (and of the substring rule that follows it) *)
(* for the terms of the model; a term outside the table maps to nothing.   *)
CuisineTable ==
  [NORTH_INDIAN |-> "NORTH_INDIAN", CHINESE |-> "CHINESE", ITALIAN |-> "ITALIAN",
   chinese |-> "CHINESE", punjabi |-> "NORTH_INDIAN", pizza |-> "ITALIAN"]

MapCuisine(cuisine) ==
  IF cuisine \in DOMAIN CuisineTable THEN {CuisineTable[cuisine]} ELSE {}

map_cuisines_to_vocab(cuisines) ==
  IF ~Truthy(cuisines) THEN {}
  ELSE UNION {MapCuisine(cuisines[i]) : i \in 1..Len(cuisines)}

Range(s) == {s[i] : i \in 1..Len(s)}

Orderings(S) == {q \in UNION {[1..n -> S] : n \in {Cardinality(S)}} : Range(q) = S}

Days == <<"monday", "tuesday", "wednesday", "thursday", "friday", "saturday", "sunday">>

IsMinutes(a, b) == a \in {"0", "1", "2", "3", "4", "5"} /\ IsDigit(b)

is_valid_time(time_str) ==
  /\ Truthy(time_str)
  /\ \/ /\ Len(time_str) = 4
        /\ IsDigit(time_str[1]) /\ time_str[2] = ":"
        /\ IsMinutes(time_str[3], time_str[4])
     \/ /\ Len(time_str) = 5
        /\ \/ time_str[1] \in {"0", "1"} /\ IsDigit(time_str[2])
           \/ time_str[1] = "2" /\ time_str[2] \in {"0", "1", "2", "3"}
        /\ time_str[3] = ":"
        /\ IsMinutes(time_str[4], time_str[5])

normalize_hours_format(hours_data) ==
  IF hours_data = None \/ hours_data = EmptyDict THEN EmptyDict
  ELSE LET h == hours_data[2]
           Keep(seg) == is_valid_time(Get(seg, "open", None))
                        /\ is_valid_time(Get(seg, "close", None))
       IN  <<"dict",
             [k \in Range(Days) \cup {"confidence"} |->
                IF k = "confidence" THEN Get(h, "confidence", 0)
                ELSE SelectSeq(Get(h, k, <<>>), Keep)]>>

(***************************************************************************)
(* app/persist.py: DatabaseManager.upsert_restaurant                       *)
(*                                                                         *)
(* The result is [ok, store, provenance, restaurant_id]; ok = FALSE is the *)
(* except branch: the session is rolled back and the exception re-raised.  *)
(***************************************************************************)
ProvColumns ==
  {"id", "restaurant_id", "field", "value", "confidence", "source_url",
   "content_hash", "model_name", "model_version", "extracted_at"}

ProvNumColumns == {"id", "confidence", "extracted_at"}

ProvNullOf(k) == IF k \in ProvNumColumns THEN NoneNum ELSE None

Put(d, k, v) == (k :> v) @@ d

IndexOfId(st, rid) ==
  FirstIndex({i \in 1..Len(st) : st[i].restaurant_id = rid})

EncodeJsonColumns(data) ==
  [k \in DOMAIN data |->
     IF k = "cuisines" /\ IsList(data[k]) THEN JsonDumpsList(data[k])
     ELSE IF k = "hours" /\ IsDict(data[k]) THEN JsonDumpsDict(data[k])
     ELSE data[k]]

UpdateRowMutReplace(existing, data) ==
  [k \in Columns |-> IF k \in DOMAIN data THEN data[k] ELSE NullOf(k)]

UpdateRow(existing, data) ==
  [k \in Columns |-> IF k \in DOMAIN data THEN data[k] ELSE existing[k]]

NewRow(data) == [k \in Columns |-> Get(data, k, NullOf(k))]

ProvRow(prov_data, restaurant_id, now, id) ==
  [k \in ProvColumns |->
     IF k = "id" THEN id
     ELSE IF k = "restaurant_id" THEN restaurant_id
     ELSE IF k = "extracted_at" THEN now
     ELSE Get(prov_data, k, ProvNullOf(k))]

ProvRowsMutReplace(pv, provenance_data, restaurant_id, now) ==
  LET Others(r) == r.restaurant_id # restaurant_id
  IN  SelectSeq(pv, Others)
      \o [i \in 1..Len(provenance_data) |->
            ProvRow(provenance_data[i], restaurant_id, now, Len(pv) + i)]

ProvRows(pv, provenance_data, restaurant_id, now) ==
  pv \o [i \in 1..Len(provenance_data) |->
           ProvRow(provenance_data[i], restaurant_id, now, Len(pv) + i)]

RowConstraintsHold(row) == row.canonical_name # None /\ row.updated_at # NoneNum

ProvConstraintsHold(prov_data) ==
  /\ (DOMAIN prov_data \ {"restaurant_id", "extracted_at"}) \subseteq ProvColumns
  /\ Get(prov_data, "field", None) # None
  /\ Get(prov_data, "value", None) # None
  /\ Get(prov_data, "confidence", NoneNum) # NoneNum

PlaceRowMutAppend(st, i, row) == Append(st, row)

PlaceRow(st, i, row) ==
  IF i # 0 THEN [st EXCEPT ![i] = row] ELSE Append(st, row)

CommitMutNoRollback(st, pv, data, provenance_data, now, restaurant_id, i, row) ==
  [ok |-> /\ i = 0 => DOMAIN data \subseteq Columns
          /\ RowConstraintsHold(row)
          /\ \A j \in 1..Len(provenance_data) : ProvConstraintsHold(provenance_data[j]),
   store |-> PlaceRow(st, i, row),
   provenance |-> pv,
   restaurant_id |-> restaurant_id]

Commit(st, pv, data, provenance_data, now, restaurant_id, i, row) ==
  IF /\ i = 0 => DOMAIN data \subseteq Columns
     /\ RowConstraintsHold(row)
     /\ \A j \in 1..Len(provenance_data) : ProvConstraintsHold(provenance_data[j])
  THEN [ok |-> TRUE, store |-> PlaceRow(st, i, row),
        provenance |-> ProvRows(pv, provenance_data, restaurant_id, now),
        restaurant_id |-> restaurant_id]
  ELSE [ok |-> FALSE, store |-> st, provenance |-> pv,
        restaurant_id |-> restaurant_id]

UpsertRow(st, pv, data, provenance_data, now, restaurant_id, i) ==
  Commit(st, pv, data, provenance_data, now, restaurant_id, i,
         IF i # 0 THEN UpdateRow(st[i], data) ELSE NewRow(data))

UpsertWithId(st, pv, restaurant_data, provenance_data, now, restaurant_id) ==
  UpsertRow(st, pv,
            EncodeJsonColumns(Put(Put(restaurant_data, "restaurant_id", restaurant_id),
                                  "updated_at", now)),
            provenance_data, now, restaurant_id, IndexOfId(st, restaurant_id))

upsert_restaurant(st, pv, restaurant_data, provenance_data, now, n) ==
  UpsertWithId(st, pv, restaurant_data, provenance_data, now,
               IF ~Truthy(Get(restaurant_data, "restaurant_id", None))
               THEN uuid4(n) ELSE restaurant_data.restaurant_id)

(***************************************************************************)
(* app/cli.py: the body of the per-restaurant loop of _run_pipeline        *)
(***************************************************************************)
PyOr(a, b) == IF Truthy(a) THEN a ELSE b

(* A dict is built as the override of its assignments, the latest first.   *)
SeedField(seed_data, k) ==
  IF k \in NumColumns
  THEN (IF TruthyNum(Get(seed_data, k, NoneNum)) THEN k :> seed_data[k] ELSE <<>>)
  ELSE (IF Truthy(Get(seed_data, k, None)) THEN k :> seed_data[k] ELSE <<>>)

ExtValue(extraction_results, field) ==
  IF field \in DOMAIN extraction_results
  THEN Get(extraction_results[field], "value", None)
  ELSE None

ExtAddress(addr) ==
  IF Truthy(addr)
  THEN [address_full |-> Get(addr[2], "full", None),
        pincode |-> Get(addr[2], "pincode", None)]
  ELSE <<>>

ExtField(value, k) == IF Truthy(value) THEN k :> value ELSE <<>>

SeedStructured(seed_data, key, k) ==
  IF key \in DOMAIN seed_data THEN k :> seed_data[key] ELSE <<>>

build_restaurant_data(seed_data, extraction_results) ==
  SeedStructured(seed_data, "hours_structured", "hours")
  @@ SeedStructured(seed_data, "cuisines_structured", "cuisines")
  @@ ExtField(ExtValue(extraction_results, "cuisines"), "cuisines")
  @@ ExtField(ExtValue(extraction_results, "hours"), "hours")
  @@ ExtField(ExtValue(extraction_results, "phone"), "phone")
  @@ ExtAddress(ExtValue(extraction_results, "address"))
  @@ SeedField(seed_data, "website") @@ SeedField(seed_data, "phone")
  @@ SeedField(seed_data, "lon") @@ SeedField(seed_data, "lat")
  @@ [canonical_name |-> Get(seed_data, "name", <<>>)]

NormName(name_field) ==
  IF Truthy(name_field)
  THEN [canonical_name |-> normalize_restaurant_name(name_field)] ELSE <<>>

NormAddress(address_field) ==
  IF ~Truthy(address_field) THEN <<>>
  ELSE IF IsDict(address_field)
  THEN (IF "pincode" \in DOMAIN address_field[2]
        THEN [address_full |-> Get(address_field[2], "full", None),
              pincode |-> normalize_pincode(address_field[2]["pincode"])]
        ELSE [address_full |-> Get(address_field[2], "full", None)])
  ELSE [address_full |-> address_field]

NormPincode(data, normalized) ==
  IF "pincode" \in DOMAIN data /\ "pincode" \notin DOMAIN normalized
  THEN [pincode |-> normalize_pincode(data["pincode"])] ELSE <<>>

WithPincode(data, normalized) == NormPincode(data, normalized) @@ normalized

NormPhone(data) ==
  IF "phone" \in DOMAIN data THEN [phone |-> normalize_phone(data["phone"])] ELSE <<>>

NormWebsite(data) ==
  IF "website" \in DOMAIN data
  THEN [website |-> normalize_website_url(data["website"])] ELSE <<>>

NormCuisines(data, cuisines_list) ==
  IF "cuisines" \in DOMAIN data THEN [cuisines |-> cuisines_list] ELSE <<>>

NormHours(data) ==
  IF "hours" \in DOMAIN data
  THEN [hours |-> normalize_hours_format(data["hours"])] ELSE <<>>

Coordinate(data, field) == IF field \in DOMAIN data THEN field :> data[field] ELSE <<>>

(* cuisines_list is the order in which list(set) lists the mapped tags.    *)
normalize_restaurant_data(data, cuisines_list) ==
  Coordinate(data, "lon") @@ Coordinate(data, "lat")
  @@ NormHours(data) @@ NormCuisines(data, cuisines_list)
  @@ NormWebsite(data) @@ NormPhone(data)
  @@ WithPincode(data,
       NormAddress(PyOr(Get(data, "address_full", None), Get(data, "address", None)))
       @@ NormName(PyOr(Get(data, "canonical_name", None), Get(data, "name", None))))

NeedsGeocode(normalized_data) ==
  /\ ~TruthyNum(Get(normalized_data, "lat", NoneNum))
     \/ ~TruthyNum(Get(normalized_data, "lon", NoneNum))
  /\ Truthy(Get(normalized_data, "address_full", None))

(* geo is the answer of geocode_address: a pair <<lat, lon>>.              *)
ApplyGeocode(normalized_data, geo) ==
  IF NeedsGeocode(normalized_data) /\ TruthyNum(geo[1]) /\ TruthyNum(geo[2])
  THEN Put(Put(normalized_data, "lat", geo[1]), "lon", geo[2])
  ELSE normalized_data

field_mapping ==
  [address |-> <<"address_full">>, phone |-> <<"phone">>, hours |-> <<"hours">>,
   cuisines |-> <<"cuisines">>]

(* json.dumps for the dict of the address and hours extractors and the     *)
(* list of the cuisine extractor, str for the phone extractor's string.    *)
Serialize(field, value) ==
  IF IsDict(value) THEN JsonDumpsDict(value)
  ELSE IF field = "cuisines" THEN JsonDumpsList(value)
  ELSE value

ExtFields == <<"address", "phone", "hours", "cuisines">>

OLLAMA_MODEL == <<"qwen2:1.5b-instruct">>

build_provenance_records(extraction_results, source_url, llm) ==
  LET Has(f) == f \in DOMAIN extraction_results
                /\ Get(extraction_results[f], "value", None) # None
      fields == SelectSeq(ExtFields, Has)
  IN  [i \in 1..Len(fields) |->
         [field |-> field_mapping[fields[i]],
          value |-> Serialize(fields[i], extraction_results[fields[i]].value),
          confidence |-> Get(extraction_results[fields[i]], "confidence", 0),
          source_url |-> source_url,
          content_hash |-> None,
          model_name |-> IF llm THEN OLLAMA_MODEL ELSE <<"regex">>,
          model_version |-> <<"1.0">>]]

(***************************************************************************)
(* The inputs of the model: seed records as app/seed.py hands them to the  *)
(* pipeline, the extraction results of a fetched page, and the dicts a     *)
(* caller passes to upsert_restaurant directly.                            *)
(***************************************************************************)
N_TOIT == <<"T","o","i","t">>

N_THE_TOIT == <<"t","h","e"," "," ","t","o","i","t"," ","r","e","s","t","a","u","r","a","n","t">>

N_MOTI == <<"M","o","t","i">>

N_MOTTI == <<"M","o","t","t","i">>

N_TEST == <<"T","e","s","t"," ","R","e","s","t","a","u","r","a","n","t">>

P_MOBILE == <<"+","9","1","9","8","7","6","5","4","3","2","1","0">>

P_MOBILE10 == <<"9","8","7","6","5"," ","4","3","2","1","0">>

P_LAND == <<"0","1","1","2","3","4","5","1","2","3">>

P_LAND_DASH == <<"0","1","1","-","2","3","4","5","1","2","3">>

P_SHORT == <<"1","2","3","4","5">>

P_TEST == <<"+","9","1"," ","8","0"," ","1","2","3","4"," ","5","6","7","8">>

P_TEST2 == <<"+","9","1"," ","8","0"," ","9","9","9","9"," ","8","8","8","8">>

URL_TOIT == <<"h","t","t","p","s",":","/","/","t","o","i","t",".","i","n">>

URL_TOIT_WWW == <<"h","t","t","p",":","/","/","w","w","w",".","t","o","i","t",".","i","n">>

A_DELHI == <<"1","2"," ","M","G"," ","R","o","a","d"," ","D","e","l","h","i">>

PIN_DELHI == <<"1","1","0","0","0","1">>

T_OPEN == <<"9",":","0","0">>

T_CLOSE == <<"2","2",":","3","0">>

T_BAD == <<"2","5",":","0","0">>

TEST_ID == <<"test_resto_001">>

NoExtraction == <<>>

PageExtraction ==
  [address |->
     [value |-> <<"dict", [full |-> A_DELHI, house_no |-> None, street |-> None,
                           locality |-> None, city |-> <<"D","e","l","h","i">>,
                           state |-> <<"D","e","l","h","i">>,
                           pincode |-> PIN_DELHI, confidence |-> 75]>>,
      confidence |-> 75],
   phone |-> [value |-> None, confidence |-> 0],
   hours |->
     [value |-> <<"dict", [monday |-> <<[open |-> T_OPEN, close |-> T_CLOSE],
                                        [open |-> T_OPEN, close |-> T_BAD]>>,
                           confidence |-> 15]>>,
      confidence |-> 15],
   cuisines |-> [value |-> <<"CHINESE">>, confidence |-> 15]]

Observations ==
  { [seed |-> [name |-> N_THE_TOIT, lat |-> 10000, lon |-> 77000, phone |-> P_MOBILE,
               website |-> URL_TOIT, cuisines_structured |-> <<"punjabi", "chinese">>],
     ext |-> NoExtraction],
    [seed |-> [name |-> N_TOIT, lat |-> 12000, lon |-> 77000, phone |-> P_MOBILE10],
     ext |-> NoExtraction],
    [seed |-> [name |-> N_TOIT, lat |-> 11000, lon |-> 77000, phone |-> P_MOBILE,
               cuisines_structured |-> <<"chinese", "pizza">>],
     ext |-> NoExtraction],
    [seed |-> [name |-> N_TOIT, lat |-> 11600, lon |-> 77000, phone |-> P_MOBILE],
     ext |-> NoExtraction],
    [seed |-> [name |-> N_TOIT, lat |-> 10100, lon |-> 77000],
     ext |-> NoExtraction],
    [seed |-> [name |-> N_TOIT, lat |-> 10000, lon |-> 77000, phone |-> P_SHORT,
               website |-> URL_TOIT_WWW],
     ext |-> NoExtraction],
    [seed |-> [name |-> N_MOTI, lat |-> 20000, lon |-> 77000, phone |-> P_LAND],
     ext |-> NoExtraction],
    [seed |-> [name |-> N_MOTTI, lat |-> 20000, lon |-> 77000, phone |-> P_LAND_DASH],
     ext |-> NoExtraction],
    [seed |-> [name |-> <<>>, lat |-> 10000, lon |-> 77000],
     ext |-> NoExtraction],
    [seed |-> [name |-> N_TOIT, lat |-> 0, lon |-> 0, website |-> URL_TOIT],
     ext |-> PageExtraction] }

GeoAnswers == {<<NoneNum, NoneNum>>, <<10000, 77000>>}

TestProvenance ==
  [field |-> <<"phone">>, value |-> P_TEST, confidence |-> 95,
   source_url |-> URL_TOIT, content_hash |-> None,
   model_name |-> <<"llama2">>, model_version |-> <<"1.0">>]

ProvenanceInputs ==
  { <<>>,
    <<TestProvenance>>,
    <<TestProvenance, [field |-> <<"phone">>, confidence |-> 95]>> }

UpsertInputs(st) ==
  { [restaurant_id |-> TEST_ID, canonical_name |-> N_TEST, lat |-> 12972,
     lon |-> 77595, phone |-> P_TEST, cuisines |-> <<"NORTH_INDIAN", "CHINESE">>,
     hours |-> <<"dict", [monday |-> <<[open |-> T_OPEN, close |-> T_CLOSE]>>]>>],
    [restaurant_id |-> TEST_ID, phone |-> P_TEST2],
    [restaurant_id |-> TEST_ID, canonical_name |-> N_TEST, rating |-> <<"5">>],
    [canonical_name |-> N_MOTI] }
  \cup { [restaurant_id |-> st[i].restaurant_id, website |-> URL_TOIT_WWW] :
           i \in 1..Len(st) }

(***************************************************************************)
(* The state machine of the store: the pipeline's loop body and the direct *)
(* calls of upsert_restaurant, in any order.                               *)
(*                                                                         *)
(*   store       the restaurants table                                     *)
(*   provenance  the provenance table, in id order                         *)
(*   clock       datetime.utcnow(), one tick per operation                 *)
(*   uuid_count  the number of identifiers uuid4 has produced              *)
(*   llm_enabled settings.llm_enabled                                      *)
(*   last        a record of the latest operation: its inputs, the tables  *)
(*               before it and what it returned                            *)
(*   args        the arguments of a call of one of the pure functions      *)
(*   result      what that call returned                                   *)
(*   chunks      the text chunks handed to an extractor                    *)
(*   extraction  what the extractor did with them                          *)
(***************************************************************************)
VARIABLES store, provenance, clock, uuid_count, llm_enabled, last,
          args, result, chunks, extraction, pipeline_tasks, runs, fetches

vars == <<store, provenance, clock, uuid_count, llm_enabled, last,
          args, result, chunks, extraction, pipeline_tasks, runs, fetches>>

tables == <<store, provenance, clock, uuid_count, last>>

calls == <<args, result>>

extractors == <<chunks, extraction>>

(* The tasks of the API, the pipeline runs of other processes and the      *)
(* fetches of fetch_urls.                                                  *)
background == <<pipeline_tasks, runs, fetches>>

NoBackground ==
  /\ pipeline_tasks = <<>>
  /\ runs = <<>>
  /\ fetches = <<>>

NoCall == [done |-> FALSE]

Idle == [pc |-> "idle"]

EmptyTables ==
  /\ store = <<>>
  /\ provenance = <<>>
  /\ clock = 0
  /\ uuid_count = 0
  /\ last = [op |-> "init", obs |-> <<>>, data |-> <<>>, prov |-> <<>>,
             rid |-> None, ok |-> TRUE, pre_store |-> <<>>, pre_prov |-> <<>>]

MaxOps == 3

Init ==
  /\ EmptyTables
  /\ NoBackground
  /\ llm_enabled \in BOOLEAN
  /\ args = <<>>
  /\ result = NoCall
  /\ chunks = <<>>
  /\ extraction = Idle

(* One iteration of the loop of _run_pipeline; an exception of the body is *)
(* logged and the loop goes on with the next restaurant.                   *)
ProcessRestaurant ==
  /\ clock < MaxOps
  /\ \E o \in Observations, geo \in GeoAnswers :
     \E restaurant_data \in {build_restaurant_data(o.seed, o.ext)} :
     \E cuisines_list \in
          Orderings(map_cuisines_to_vocab(Get(restaurant_data, "cuisines", <<>>))) :
     \E normalized_data \in
          {ApplyGeocode(normalize_restaurant_data(restaurant_data, cuisines_list), geo)} :
     \E existing_id \in {find_existing_restaurant(store, normalized_data)} :
     \E restaurant_id \in {OrNewId(existing_id, uuid_count + 1)} :
     \E provenance_records \in
          {build_provenance_records(o.ext, Get(o.seed, "website", None), llm_enabled)} :
     \E res \in {upsert_restaurant(store, provenance,
                                    Put(normalized_data, "restaurant_id", restaurant_id),
                                    provenance_records, clock + 1, uuid_count + 1)} :
       /\ store' = res.store
       /\ provenance' = res.provenance
       /\ clock' = clock + 1
       /\ uuid_count' = IF Truthy(existing_id) THEN uuid_count ELSE uuid_count + 1
       /\ last' = [op |-> "process", obs |-> normalized_data,
                   data |-> Put(normalized_data, "restaurant_id", restaurant_id),
                   prov |-> provenance_records, rid |-> restaurant_id,
                   ok |-> res.ok, pre_store |-> store, pre_prov |-> provenance]
  /\ UNCHANGED <<background, llm_enabled, calls, extractors>>

(* A direct call db_manager.upsert_restaurant(restaurant_data, provenance_data). *)
UpsertRestaurant ==
  /\ clock < MaxOps
  /\ \E restaurant_data \in UpsertInputs(store), provenance_data \in ProvenanceInputs :
     \E res \in {upsert_restaurant(store, provenance, restaurant_data, provenance_data,
                                    clock + 1, uuid_count + 1)} :
       /\ store' = res.store
       /\ provenance' = res.provenance
       /\ clock' = clock + 1
       /\ uuid_count' = IF Truthy(Get(restaurant_data, "restaurant_id", None))
                        THEN uuid_count ELSE uuid_count + 1
       /\ last' = [op |-> "upsert", obs |-> restaurant_data, data |-> restaurant_data,
                   prov |-> provenance_data, rid |-> res.restaurant_id,
                   ok |-> res.ok, pre_store |-> store, pre_prov |-> provenance]
  /\ UNCHANGED <<background, llm_enabled, calls, extractors>>

Next == ProcessRestaurant \/ UpsertRestaurant

Spec == Init /\ [][Next]_vars

(***************************************************************************)
(* Properties of the resolver                                              *)
(***************************************************************************)
ObsScore(obs, row) == OverallScore(Evidence(obs, to_dict(row)))

Exceeds(obs, row) == FLess(THRESHOLD, ObsScore(obs, row))

ExactlyAt(obs, row) == ObsScore(obs, row) = THRESHOLD

SomeExceeds(obs, cands) == \E i \in 1..Len(cands) : Exceeds(obs, cands[i])

ResolvedAsC1(st, obs, cands, rid) ==
  /\ rid # None
  /\ rid \in StoredIds(st) <=> SomeExceeds(obs, cands)
  /\ SomeExceeds(obs, cands) => rid \in {cands[i].restaurant_id : i \in 1..Len(cands)}

(* C1: the pipeline's resolve step returns the id of a stored restaurant   *)
(* exactly when some gathered candidate scores strictly above 0.70 against *)
(* the observation; otherwise (no candidate, or none above 0.70, a score   *)
(* of exactly 0.70 included) it returns an identifier no stored restaurant *)
(* has, and it always returns an identifier.                               *)
C1_ResolveIffAboveThreshold ==
  last.op = "process" =>
    ResolvedAsC1(last.pre_store, last.obs,
                 UniqueCandidates(last.pre_store, last.obs), last.rid)

C1_Witness ==
  /\ last.op = "process"
  /\ \E i \in 1..Len(last.pre_store) :
       /\ last.pre_store[i].restaurant_id \in
            StoredIds(UniqueCandidates(last.pre_store, last.obs))
       /\ ExactlyAt(last.obs, last.pre_store[i])
  /\ ~SomeExceeds(last.obs, UniqueCandidates(last.pre_store, last.obs))
  /\ last.rid \notin StoredIds(last.pre_store)
  /\ last.rid \in StoredIds(store)

IsWinner(obs, cands, i) ==
  /\ Exceeds(obs, cands[i])
  /\ \A j \in 1..Len(cands) :
       Exceeds(obs, cands[j]) =>
         /\ ~FLess(ObsScore(obs, cands[i]), ObsScore(obs, cands[j]))
         /\ j < i => FLess(ObsScore(obs, cands[j]), ObsScore(obs, cands[i]))

(* C2: when some deduplicated candidate scores above 0.70, the id returned *)
(* is that of the candidate with the highest score, and among candidates   *)
(* sharing the highest score that of the first in the enumeration order    *)
(* (name matches, then city matches, then phone matches).                  *)
C2_HighestScoreFirstWins ==
  last.op = "process" /\ SomeExceeds(last.obs, UniqueCandidates(last.pre_store, last.obs))
    => \E i \in 1..Len(UniqueCandidates(last.pre_store, last.obs)) :
         /\ IsWinner(last.obs, UniqueCandidates(last.pre_store, last.obs), i)
         /\ last.rid = UniqueCandidates(last.pre_store, last.obs)[i].restaurant_id

TieAt(obs, cands, i, j) ==
  /\ i < j
  /\ IsWinner(obs, cands, i)
  /\ Exceeds(obs, cands[j])
  /\ ObsScore(obs, cands[i]) = ObsScore(obs, cands[j])

C2_Witness ==
  /\ last.op = "process"
  /\ \E i, j \in 1..Len(UniqueCandidates(last.pre_store, last.obs)) :
       /\ TieAt(last.obs, UniqueCandidates(last.pre_store, last.obs), i, j)
       /\ last.rid = UniqueCandidates(last.pre_store, last.obs)[i].restaurant_id

(* C3: for an observation with a non-empty name, every stored restaurant   *)
(* scoring above 0.70 against it is among the gathered candidates, so that *)
(* the resolve step returns a stored id whenever such a restaurant exists. *)
C3_CandidatesRecallAllMatches ==
  last.op = "process" /\ Truthy(Get(last.obs, "canonical_name", <<>>))
    => /\ \A i \in 1..Len(last.pre_store) :
            Exceeds(last.obs, last.pre_store[i]) =>
              last.pre_store[i].restaurant_id \in
                StoredIds(UniqueCandidates(last.pre_store, last.obs))
       /\ SomeExceeds(last.obs, last.pre_store) => last.rid \in StoredIds(last.pre_store)

(***************************************************************************)
(* Properties of the store                                                 *)
(***************************************************************************)
RowOf(st, rid) == st[IndexOfId(st, rid)]

Matched == last.ok /\ last.rid \in StoredIds(last.pre_store)

KeepsWhenEmpty(old, new, obs) ==
  /\ \A k \in {"canonical_name", "address_full", "pincode", "phone", "website", "hours"} :
       ~Truthy(Get(obs, k, None)) => new[k] = old[k]
  /\ \A k \in {"lat", "lon"} :
       ~TruthyNum(Get(obs, k, NoneNum)) => new[k] = old[k]
  /\ ~Truthy(Get(obs, "cuisines", None)) => Range(new.cuisines) = Range(old.cuisines)

UnionOfCuisines(old, new, obs) ==
  Truthy(Get(obs, "cuisines", None)) =>
    Range(new.cuisines) = Range(old.cuisines) \cup Range(obs.cuisines)

(* C6: when the pipeline processes an observation that resolves to an      *)
(* already stored restaurant, the record stored afterwards is the merge of *)
(* the old record and the observation: its cuisines are the union of the   *)
(* old and the incoming cuisines, and a field whose incoming value is      *)
(* empty keeps the value stored before.                                    *)
C6_PipelineStoresMerge ==
  last.op = "process" /\ Matched =>
    /\ UnionOfCuisines(to_dict(RowOf(last.pre_store, last.rid)),
                       to_dict(RowOf(store, last.rid)), last.obs)
    /\ KeepsWhenEmpty(to_dict(RowOf(last.pre_store, last.rid)),
                      to_dict(RowOf(store, last.rid)), last.obs)

(* C7: an upsert that carries an id already in the store updates that      *)
(* record in place: the number of stored restaurants is unchanged, every   *)
(* record keeps its restaurant_id, and no two stored restaurants ever      *)
(* share an id.                                                            *)
C7_IdentityImmutable ==
  /\ \A i, j \in 1..Len(store) :
       store[i].restaurant_id = store[j].restaurant_id => i = j
  /\ Matched =>
       /\ Len(store) = Len(last.pre_store)
       /\ \A i \in 1..Len(store) :
            store[i].restaurant_id = last.pre_store[i].restaurant_id

C7_Witness ==
  /\ last.op = "upsert"
  /\ Matched
  /\ Len(store) >= 2
  /\ RowOf(store, last.rid) # RowOf(last.pre_store, last.rid)

BoundTo(record, entry, rid) ==
  /\ record.restaurant_id = rid
  /\ \A k \in DOMAIN entry : record[k] = entry[k]

(* C8: the provenance table only grows: the records stored before an       *)
(* operation are all still there unchanged after it, and a successful      *)
(* upsert adds exactly one record per supplied provenance entry, each      *)
(* carrying the upserted restaurant id; a failed one adds none.            *)
C8_ProvenanceAppendOnly ==
  /\ Len(provenance) >= Len(last.pre_prov)
  /\ SubSeq(provenance, 1, Len(last.pre_prov)) = last.pre_prov
  /\ Len(provenance) = Len(last.pre_prov) + (IF last.ok THEN Len(last.prov) ELSE 0)
  /\ last.ok =>
       \A i \in 1..Len(last.prov) :
         BoundTo(provenance[Len(last.pre_prov) + i], last.prov[i], last.rid)

C8_Witness ==
  /\ last.ok
  /\ Len(last.prov) >= 1
  /\ \E i \in 1..Len(last.pre_prov) : last.pre_prov[i].restaurant_id = last.rid
  /\ Len(provenance) = Len(last.pre_prov) + Len(last.prov)

Stored(value) ==
  IF IsDict(value) THEN JsonDumpsDict(value)
  ELSE JsonDumpsList(value)

SetTo(row, data, k) ==
  IF k \in {"cuisines", "hours"} /\ data[k] # None THEN row[k] = Stored(data[k])
  ELSE row[k] = data[k]

(* C9: an upsert under an existing id changes, in that restaurant's        *)
(* record, only the fields present as keys of the supplied data and the    *)
(* update timestamp, and changes no other restaurant's record.             *)
C9_UpsertReplacesOnlyGivenKeys ==
  Matched =>
    /\ \A k \in Columns \ (DOMAIN last.data \cup {"updated_at"}) :
         RowOf(store, last.rid)[k] = RowOf(last.pre_store, last.rid)[k]
    /\ \A k \in (Columns \cap DOMAIN last.data) \ {"updated_at"} :
         SetTo(RowOf(store, last.rid), last.data, k)
    /\ \A i \in 1..Len(store) :
         store[i].restaurant_id # last.rid => store[i] = last.pre_store[i]

C9_Witness ==
  /\ last.op = "upsert"
  /\ Matched
  /\ Len(store) >= 2
  /\ \E k \in Columns \ (DOMAIN last.data \cup {"updated_at"}) :
       RowOf(last.pre_store, last.rid)[k] # NullOf(k)
  /\ \E k \in Columns \cap DOMAIN last.data :
       RowOf(store, last.rid)[k] # RowOf(last.pre_store, last.rid)[k]

(***************************************************************************)
(* app/resolve.py: is_likely_same_restaurant called on pairs of records    *)
(***************************************************************************)
A_DELHI_CP == <<"1","2"," ","C","P"," ","D","e","l","h","i">>

ScoreLeft ==
  { [canonical_name |-> name, lat |-> lat, lon |-> 77000, phone |-> phone,
     website |-> website, address_full |-> address_full] :
      name \in {N_TOIT, N_MOTTI, <<>>}, lat \in {NoneNum, 10000},
      phone \in {None, P_MOBILE, P_SHORT}, website \in {None, URL_TOIT},
      address_full \in {None, A_DELHI} }
  \cup {[canonical_name |-> N_TOIT]}

ScoreRight ==
  { [canonical_name |-> name, lat |-> lat, lon |-> 77000, phone |-> phone,
     website |-> website, address_full |-> address_full] :
      name \in {N_TOIT, N_MOTI},
      lat \in {NoneNum, 10100, 10499, 10500, 11999, 12000},
      phone \in {None, P_MOBILE10, P_LAND}, website \in {None, URL_TOIT_WWW},
      address_full \in {A_DELHI, A_DELHI_CP} }
  \cup {[canonical_name |-> N_TOIT, lat |-> 10000, lon |-> NoneNum]}

InitScore ==
  /\ EmptyTables
  /\ NoBackground
  /\ llm_enabled = FALSE
  /\ args \in ScoreLeft \X ScoreRight
  /\ result = NoCall
  /\ chunks = <<>>
  /\ extraction = Idle

(* The call is_likely_same_restaurant(restaurant1, restaurant2). *)
CallIsLikelySame ==
  /\ ~result.done
  /\ result' = [done |-> TRUE, fn |-> "is_likely_same_restaurant",
                value |-> is_likely_same_restaurant(args[1], args[2])]
  /\ UNCHANGED <<background, tables, llm_enabled, args, extractors>>

NextScore == CallIsLikelySame

SpecScore == InitScore /\ [][NextScore]_vars

(***************************************************************************)
(* Properties of the match score                                           *)
(*                                                                         *)
(* The real numbers of the statements are counted in units of              *)
(* 2^-80 / 1000, in which every float of the model is a natural number.    *)
(***************************************************************************)
Scored == result.done /\ result.fn = "is_likely_same_restaurant"

HasCoordinates(r) == Get(r, "lat", NoneNum) # NoneNum /\ Get(r, "lon", NoneNum) # NoneNum

MetresApart(r1, r2) == calculate_distance_km(r1.lat, r1.lon, r2.lat, r2.lon)

ClaimedGeo(r1, r2) ==
  IF ~HasCoordinates(r1) \/ ~HasCoordinates(r2) THEN 0
  ELSE IF MetresApart(r1, r2) < 500 THEN 300
  ELSE IF MetresApart(r1, r2) < 2000 THEN 150
  ELSE 0

TenDigits(phone) == Truthy(phone) /\ Len(Digits(phone)) >= 10

ClaimedPhone(r1, r2) ==
  /\ TenDigits(Get(r1, "phone", None))
  /\ TenDigits(Get(r2, "phone", None))
  /\ Last10(Digits(r1.phone)) = Last10(Digits(r2.phone))

(* x times k thousandths, and k thousandths. *)
RealOf(x, k) == BigMulSmall(ShiftLeft(x.m, x.e + 80), k)

Thousandths(k) == ShiftLeft(ToBig(k), 80)

BigMin(a, b) == IF BigLess(b, a) THEN b ELSE a

ClaimedSum(ev, geo, phone) ==
  BigAdd(BigAdd(RealOf(ev.name_similarity, 400),
                Thousandths(geo + (IF phone THEN 200 ELSE 0)
                                + (IF ev.website_match THEN 100 ELSE 0))),
         RealOf(ev.address_similarity, 100))

(* 2^-50, under 10^-15: the rounding the five additions may accumulate. *)
Rounding == ShiftLeft(ToBig(1000), 30)

UpToRounding(a, b) == BigLeq(a, BigAdd(b, Rounding)) /\ BigLeq(b, BigAdd(a, Rounding))

ScoreIsClaimed(score, ev, r1, r2) ==
  UpToRounding(RealOf(score, 1000),
               BigMin(ClaimedSum(ev, ClaimedGeo(r1, r2), ClaimedPhone(r1, r2)),
                      Thousandths(1000)))

ExampleCase(r1, r2, ev) ==
  /\ ev.name_similarity = F_ONE
  /\ HasCoordinates(r1) /\ HasCoordinates(r2)
  /\ MetresApart(r1, r2) <= 100
  /\ ClaimedPhone(r1, r2)

(* C4: the match score of two records is min(1, 0.40 * name similarity +   *)
(* geo + 0.20 if the phones match + 0.10 if the websites match + 0.10 *    *)
(* address similarity), where geo is 0.30 under 0.5 km, 0.15 under 2.0 km  *)
(* and 0 otherwise or when a coordinate is missing, and the phones match   *)
(* when both have at least ten digits and the same last ten; the score is  *)
(* in [0, 1]; identical names within 0.1 km with matching phones score at  *)
(* least 0.90 and are judged the same.                                     *)
C4_ScoreFormula ==
  Scored =>
    /\ ScoreIsClaimed(result.value.score, result.value.evidence, args[1], args[2])
    /\ ~FLess(result.value.score, F_ZERO)
    /\ ~FLess(F_ONE, result.value.score)
    /\ ExampleCase(args[1], args[2], result.value.evidence) =>
         /\ BigLeq(Thousandths(900), RealOf(result.value.score, 1000))
         /\ result.value.is_same

(* C4, with the arithmetic the function does: the score is that sum up to  *)
(* the rounding of the float additions, it is in [0, 1], and identical     *)
(* names within 0.1 km with matching phones score 0.90 up to rounding,     *)
(* which is above 0.70, and are judged the same.                           *)
C4_ScoreFormulaRounded ==
  Scored =>
    /\ ScoreIsClaimed(result.value.score, result.value.evidence, args[1], args[2])
    /\ ~FLess(result.value.score, F_ZERO)
    /\ ~FLess(F_ONE, result.value.score)
    /\ ExampleCase(args[1], args[2], result.value.evidence) =>
         /\ BigLeq(Thousandths(900), BigAdd(RealOf(result.value.score, 1000), Rounding))
         /\ FLess(THRESHOLD, result.value.score)
         /\ result.value.is_same

(* The example of C4 with no website and no address to compare: 0.4 + 0.3  *)
(* + 0.2 in floats is the float just below 0.9.                            *)
C4_Witness ==
  /\ Scored
  /\ ExampleCase(args[1], args[2], result.value.evidence)
  /\ ~result.value.evidence.website_match
  /\ result.value.evidence.address_similarity = F_ZERO
  /\ BigLess(RealOf(result.value.score, 1000), Thousandths(900))
  /\ result.value.is_same

(***************************************************************************)
(* app/resolve.py: merge_restaurant_data                                   *)
(*                                                                         *)
(* list(set(existing_value + new_value)) has the elements of both lists,   *)
(* each once, in the order the set iterates them: merged_cuisines is one   *)
(* of the orderings of that set.                                           *)
(***************************************************************************)
merge_fields ==
  <<"canonical_name", "address_full", "pincode", "lat", "lon",
    "phone", "website", "cuisines", "hours">>

FieldTruthy(field, value) ==
  IF field \in NumColumns THEN TruthyNum(value) ELSE Truthy(value)

BothLists(field, existing_value, new_value) ==
  field = "cuisines" /\ IsList(existing_value) /\ IsList(new_value)

CuisineSetMutNew(existing_value, new_value) == Range(new_value)

CuisineSet(existing_value, new_value) == Range(existing_value \o new_value)

MergedCuisines(existing_data, new_data) ==
  IF BothLists("cuisines", Get(existing_data, "cuisines", None),
               Get(new_data, "cuisines", None))
  THEN Orderings(CuisineSet(existing_data.cuisines, new_data.cuisines))
  ELSE {<<>>}

(* One round of the loop: the assignment to merged[field], if any. *)
MergeField(field, existing_value, new_value, merged_cuisines) ==
  IF ~FieldTruthy(field, existing_value) /\ FieldTruthy(field, new_value)
  THEN field :> new_value
  ELSE IF ~FieldTruthy(field, new_value) THEN <<>>
  ELSE IF BothLists(field, existing_value, new_value) THEN field :> merged_cuisines
  ELSE field :> new_value

RECURSIVE MergeFrom(_, _, _, _)
MergeFrom(existing_data, new_data, merged_cuisines, i) ==
  IF i > Len(merge_fields) THEN <<>>
  ELSE MergeField(merge_fields[i],
                  Get(existing_data, merge_fields[i], NullOf(merge_fields[i])),
                  Get(new_data, merge_fields[i], NullOf(merge_fields[i])),
                  merged_cuisines)
       @@ MergeFrom(existing_data, new_data, merged_cuisines, i + 1)

merge_restaurant_data(existing_data, new_data, merged_cuisines) ==
  MergeFrom(existing_data, new_data, merged_cuisines, 1) @@ existing_data

H_WEEKDAY == <<"dict", [monday |-> <<[open |-> T_OPEN, close |-> T_CLOSE]>>]>>

H_SUNDAY == <<"dict", [sunday |-> <<[open |-> T_OPEN, close |-> T_CLOSE]>>]>>

MergeExisting ==
  { [restaurant_id |-> <<"uuid-1">>, canonical_name |-> name, lat |-> lat,
     phone |-> phone, cuisines |-> cuisines, hours |-> hours, updated_at |-> 1] :
      name \in {None, N_TOIT}, lat \in {NoneNum, 0, 10000},
      phone \in {None, <<>>, P_MOBILE},
      cuisines \in {None, <<>>, <<"NORTH_INDIAN", "CHINESE">>},
      hours \in {EmptyDict, H_WEEKDAY} }
  \cup {[restaurant_id |-> <<"uuid-1">>]}

MergeNew ==
  { [canonical_name |-> name, lat |-> lat, phone |-> phone,
     cuisines |-> cuisines, hours |-> hours] :
      name \in {<<>>, N_MOTI}, lat \in {NoneNum, 0, 20000},
      phone \in {None, P_LAND},
      cuisines \in {None, <<>>, <<"CHINESE", "ITALIAN">>, <<"CHINESE", "CHINESE">>},
      hours \in {None, H_SUNDAY} }
  \cup {[website |-> URL_TOIT], <<>>}

InitMerge ==
  /\ EmptyTables
  /\ NoBackground
  /\ llm_enabled = FALSE
  /\ args \in MergeExisting \X MergeNew
  /\ result = NoCall
  /\ chunks = <<>>
  /\ extraction = Idle

(* The call merge_restaurant_data(existing_data, new_data). *)
CallMerge ==
  /\ ~result.done
  /\ \E merged_cuisines \in MergedCuisines(args[1], args[2]) :
       result' = [done |-> TRUE, fn |-> "merge_restaurant_data",
                  value |-> merge_restaurant_data(args[1], args[2], merged_cuisines)]
  /\ UNCHANGED <<background, tables, llm_enabled, args, extractors>>

NextMerge == CallMerge

SpecMerge == InitMerge /\ [][NextMerge]_vars

(***************************************************************************)
(* Properties of the merge                                                 *)
(***************************************************************************)
Merged == result.done /\ result.fn = "merge_restaurant_data"

(* Empty: null, the empty string, list or dict, and the number zero. *)
IsEmpty(field, d) ==
  \/ field \notin DOMAIN d
  \/ IF field \in {"lat", "lon"} THEN d[field] \in {NoneNum, 0}
     ELSE d[field] \in {None, <<>>, EmptyDict}

Kept(field, existing_data, merged) ==
  /\ field \in DOMAIN merged <=> field \in DOMAIN existing_data
  /\ field \in DOMAIN merged => merged[field] = existing_data[field]

Adopted(field, new_data, merged) ==
  field \in DOMAIN merged /\ merged[field] = new_data[field]

IsUnion(field, existing_data, new_data, merged) ==
  /\ field \in DOMAIN merged
  /\ Range(merged[field]) = Range(existing_data[field]) \cup Range(new_data[field])
  /\ Len(merged[field]) = Cardinality(Range(merged[field]))

FieldDecided(field, existing_data, new_data, merged) ==
  IF IsEmpty(field, new_data) THEN Kept(field, existing_data, merged)
  ELSE IF IsEmpty(field, existing_data) THEN Adopted(field, new_data, merged)
  ELSE IF field = "cuisines" THEN IsUnion(field, existing_data, new_data, merged)
  ELSE Adopted(field, new_data, merged)

IsExample(existing_data, new_data) ==
  /\ {"cuisines", "phone"} \subseteq DOMAIN existing_data
  /\ {"cuisines", "phone"} \subseteq DOMAIN new_data
  /\ existing_data.cuisines = <<"NORTH_INDIAN", "CHINESE">>
  /\ existing_data.phone = None
  /\ new_data.cuisines = <<"CHINESE", "ITALIAN">>
  /\ new_data.phone = P_LAND

RECURSIVE FSumFrom(_, _)
FSumFrom(total, factors) ==
  IF factors = <<>> THEN total ELSE FSumFrom(FAdd(total, factors[1]), Tail(factors))

FSum(factors) == FSumFrom(F_ZERO, factors)

NoAddress ==
  [full |-> None, house_no |-> None, street |-> None, locality |-> None,
   city |-> None, state |-> None, pincode |-> None, confidence |-> F_ZERO]

AddrPincode(acc, chunk) ==
  IF chunk.pincodes # <<>>
  THEN [acc EXCEPT !.result.pincode = chunk.pincodes[1],
                   !.factors = Append(@, FRatio(3, 10))]
  ELSE acc

LineLen(line) == line[2]

HasKeyword(line) == line[3]

RECURSIVE AddrLines(_, _)
AddrLines(acc, lines) ==
  IF lines = <<>> THEN acc
  ELSE IF LineLen(lines[1]) > 20 /\ HasKeyword(lines[1])
          /\ (acc.result.full = None \/ LineLen(lines[1]) > LineLen(acc.result.full))
  THEN AddrLines([acc EXCEPT !.result.full = lines[1],
                             !.factors = Append(@, FRatio(2, 10))],
                 Tail(lines))
  ELSE AddrLines(acc, Tail(lines))

AddrCityState(acc, chunk) ==
  [acc EXCEPT !.result.city = chunk.city, !.result.state = chunk.state,
              !.factors = Append(@, FRatio(15, 100))]

RECURSIVE AddrChunks(_, _, _)
AddrChunks(acc, chunks_left, i) ==
  IF chunks_left = <<>> THEN acc
  ELSE IF chunks_left[1].address_indicator
  THEN AddrChunks(AddrCityState(AddrLines(AddrPincode([acc EXCEPT !.used_chunks = Append(@, i)],
                                                      chunks_left[1]),
                                          chunks_left[1].lines),
                                chunks_left[1]),
                  Tail(chunks_left), i + 1)
  ELSE AddrChunks(acc, Tail(chunks_left), i + 1)

AddrConfidence(acc) ==
  IF acc.used_chunks = <<>> THEN F_ZERO
  ELSE FMin(FAdd(FAdd(FMin(FSum(acc.factors), FRatio(8, 10)),
                      IF acc.result.pincode # None THEN FRatio(1, 10) ELSE F_ZERO),
                 IF acc.result.full # None /\ LineLen(acc.result.full) > 30
                 THEN FRatio(1, 10) ELSE F_ZERO),
            F_ONE)

Returned(value, confidence, used_chunks) ==
  [value |-> value, confidence |-> confidence, used_chunks |-> used_chunks]

AddrReturn(acc, confidence) ==
  Returned(<<"dict", [acc.result EXCEPT !.confidence = confidence]>>, confidence,
           acc.used_chunks)

AddrFinish(acc) == AddrReturn(acc, AddrConfidence(acc))

address_extract_with_regex(chunk_list) ==
  AddrFinish(AddrChunks([result |-> NoAddress, used_chunks |-> <<>>, factors |-> <<>>],
                        chunk_list, 0))

NoHours == [day \in Range(Days) |-> <<>>]

HoursDays(acc, day_hours) ==
  [acc EXCEPT
     !.result = [day \in Range(Days) |->
                   IF day \in DOMAIN day_hours THEN day_hours[day] ELSE @[day]],
     !.factors = @ \o [k \in 1..Cardinality(DOMAIN day_hours) |-> FRatio(15, 100)]]

HoursGeneral(acc, general_hours) ==
  IF general_hours # <<>> /\ \A day \in Range(Days) : acc.result[day] = <<>>
  THEN [acc EXCEPT !.result = [day \in Range(Days) |-> general_hours],
                   !.factors = Append(@, FRatio(1, 10))]
  ELSE acc

RECURSIVE HoursChunks(_, _, _)
HoursChunks(acc, chunks_left, i) ==
  IF chunks_left = <<>> THEN acc
  ELSE IF chunks_left[1].hours_indicator
  THEN HoursChunks(HoursGeneral(HoursDays([acc EXCEPT !.used_chunks = Append(@, i)],
                                          chunks_left[1].day_hours),
                                chunks_left[1].general_hours),
                   Tail(chunks_left), i + 1)
  ELSE HoursChunks(acc, Tail(chunks_left), i + 1)

HoursConfidence(acc) ==
  IF acc.used_chunks # <<>> /\ acc.factors # <<>>
  THEN FMin(FSum(acc.factors), FRatio(8, 10))
  ELSE F_ZERO

HoursReturn(acc, confidence) ==
  Returned(<<"dict", acc.result @@ [confidence |-> confidence]>>, confidence,
           acc.used_chunks)

HoursFinish(acc) == HoursReturn(acc, HoursConfidence(acc))

hours_extract_with_regex(chunk_list) ==
  HoursFinish(HoursChunks([result |-> NoHours, used_chunks |-> <<>>, factors |-> <<>>],
                          chunk_list, 0))

standard_cuisines ==
  <<"NORTH_INDIAN", "SOUTH_INDIAN", "CHINESE", "STREET_FOOD", "BAKERY", "CAFE",
    "ITALIAN", "MUGHLAI", "SEAFOOD">>

RECURSIVE PatternMatches(_, _)
PatternMatches(chunk_list, cuisine) ==
  IF chunk_list = <<>> THEN 0
  ELSE Get(chunk_list[1].cuisine_hits, cuisine, 0) + PatternMatches(Tail(chunk_list), cuisine)

AppendNew(used_chunks, i) ==
  IF i \in Range(used_chunks) THEN used_chunks ELSE Append(used_chunks, i)

RECURSIVE MarkChunks(_, _, _, _)
MarkChunks(used_chunks, chunks_left, i, cuisine) ==
  IF chunks_left = <<>> THEN used_chunks
  ELSE MarkChunks(IF Get(chunks_left[1].cuisine_hits, cuisine, 0) > 0
                  THEN AppendNew(used_chunks, i) ELSE used_chunks,
                  Tail(chunks_left), i + 1, cuisine)

PatternFound(acc, chunk_list, cuisine, matches) ==
  IF matches = 0 THEN acc
  ELSE [found |-> acc.found \cup {cuisine},
        used_chunks |-> MarkChunks(acc.used_chunks, chunk_list, 0, cuisine),
        factors |-> Append(acc.factors,
                           IF matches > 1 THEN FRatio(2, 10) ELSE FRatio(15, 100))]

RECURSIVE CuisinePatterns(_, _, _)
CuisinePatterns(acc, chunk_list, k) ==
  IF k > Len(standard_cuisines) THEN acc
  ELSE CHOOSE scanned \in
         {CuisinePatterns(next, chunk_list, k + 1) :
            next \in {PatternFound(acc, chunk_list, standard_cuisines[k],
                                   PatternMatches(chunk_list, standard_cuisines[k]))}} : TRUE

(* What one indicator found in chunk i adds, cuisine by cuisine. *)
RECURSIVE NamesNear(_, _, _, _)
NamesNear(acc, chunk, i, k) ==
  IF k > Len(standard_cuisines) THEN acc
  ELSE IF standard_cuisines[k] \in chunk.names
  THEN CHOOSE scanned \in
         {NamesNear(next, chunk, i, k + 1) :
            next \in {[found |-> acc.found \cup {standard_cuisines[k]},
                       used_chunks |-> AppendNew(acc.used_chunks, i),
                       factors |-> Append(acc.factors, FRatio(1, 10))]}} : TRUE
  ELSE NamesNear(acc, chunk, i, k + 1)

RECURSIVE Indicators(_, _, _, _)
Indicators(acc, chunk, i, left) ==
  IF left = 0 THEN acc
  ELSE CHOOSE scanned \in
         {Indicators(next, chunk, i, left - 1) : next \in {NamesNear(acc, chunk, i, 1)}} : TRUE

RECURSIVE CuisineMentions(_, _, _)
CuisineMentions(acc, chunks_left, i) ==
  IF chunks_left = <<>> THEN acc
  ELSE CHOOSE scanned \in
         {CuisineMentions(next, Tail(chunks_left), i + 1) :
            next \in {Indicators(acc, chunks_left[1], i, chunks_left[1].indicators)}} : TRUE

CuisineScan(chunk_list) ==
  CuisineMentions(CuisinePatterns([found |-> {}, used_chunks |-> <<>>, factors |-> <<>>],
                                  chunk_list, 1),
                  chunk_list, 0)

CuisineConfidence(acc) ==
  IF acc.found = {} THEN F_ZERO
  ELSE FMin(FAdd(FMin(FSum(acc.factors), FRatio(8, 10)),
                 IF Cardinality(acc.found) > 1 THEN FRatio(1, 10) ELSE F_ZERO),
            F_ONE)

CuisineFinish(acc, cuisines_list) ==
  Returned(cuisines_list, CuisineConfidence(acc), acc.used_chunks)

(* cuisines_list is list(found_cuisines), in the order the set gives. *)
cuisines_extract_with_regex(chunk_list, cuisines_list) ==
  CuisineFinish(CuisineScan(chunk_list), cuisines_list)

FoundCuisines(chunk_list) == CuisineScan(chunk_list).found

(***************************************************************************)
(* app/extract: extract, _extract_with_llm and the enhancement service     *)
(*                                                                         *)
(* A call of extract runs up to its await of the service in one step and   *)
(* from the reply of the service to its return in a second one:            *)
(*   pc         "idle", "awaiting" the reply, or "done"                    *)
(*   regex      what _extract_with_regex returned                          *)
(*   attempted  whether _extract_with_llm was called                       *)
(*   raised     what _extract_with_llm raised, if anything                 *)
(*   requests   the number of requests posted to the service               *)
(*   returned   what extract returned                                      *)
(* An answer of the service is its text: parseable or not, valid against   *)
(* the schema or not, and the JSON object it holds.                        *)
(***************************************************************************)
ADDRESS_THRESHOLD == FRatio(7, 10)

HOURS_THRESHOLD == FRatio(6, 10)

CUISINES_THRESHOLD == FRatio(6, 10)

NeedsLLMMutLE(regex_confidence, threshold) == ~FLess(threshold, regex_confidence)

NeedsLLM(regex_confidence, threshold) == FLess(regex_confidence, threshold)

(* The place of a result that was not returned: extract has not returned   *)
(* yet, or _extract_with_llm was not called or raised.                     *)
NotReturned == [returned |-> FALSE]

Accepted(field, regex) ==
  [pc |-> "done", field |-> field, regex |-> regex, attempted |-> FALSE,
   raised |-> "none", requests |-> 0, service |-> "none", llm |-> NotReturned,
   returned |-> regex]

Failed(field, regex, raised) ==
  [pc |-> "done", field |-> field, regex |-> regex, attempted |-> TRUE,
   raised |-> raised, requests |-> 0, service |-> "none", llm |-> NotReturned,
   returned |-> regex]

Awaiting(field, regex) ==
  [pc |-> "awaiting", field |-> field, regex |-> regex, attempted |-> TRUE,
   raised |-> "none", requests |-> 1, service |-> "none", llm |-> NotReturned,
   returned |-> NotReturned]

(* extract up to the request: the schema is looked up first, then          *)
(* generate_json checks settings.llm_enabled, then the request is posted.  *)
BeginExtract(field, regex, threshold, schema_loaded, enabled) ==
  IF ~NeedsLLM(regex.confidence, threshold) THEN Accepted(field, regex)
  ELSE IF ~schema_loaded THEN Failed(field, regex, "ValueError")
  ELSE IF ~enabled THEN Failed(field, regex, "LLMDisabled")
  ELSE Awaiting(field, regex)

(* A JSON value that is no number (a string, null): comparing it with a    *)
(* float, or multiplying it by one, raises TypeError.                      *)
NotANumber == [type |-> "string"]

IsNumber(v) == DOMAIN v = {"m", "e"}

ErrorReplyMutConfident == [confidence |-> F_ONE, error |-> <<"error">>]

ErrorReply == [confidence |-> F_ZERO, error |-> <<"error">>]

SCHEMA_INVALID_CAP == FRatio(3, 10)

(* parsed_json["confidence"] = min(parsed_json.get("confidence", 0.0), 0.3) *)
CapConfidence(json) ==
  Put(json, "confidence", FMin(Get(json, "confidence", F_ZERO), SCHEMA_INVALID_CAP))

(* OllamaClient.generate_json from the reply of the service on. The try    *)
(* block turns every exception into the error reply: a failed request, an  *)
(* empty response, and the TypeError of min() over a confidence that is no *)
(* number.                                                                 *)
generate_json(answer) ==
  IF answer.failure # "none" THEN ErrorReply
  ELSE IF ~answer.parseable THEN ErrorReply
  ELSE IF answer.schema_valid THEN answer.json
  ELSE IF ~IsNumber(Get(answer.json, "confidence", F_ZERO)) THEN ErrorReply
  ELSE CapConfidence(answer.json)

FirstThree(chunk_list) == [k \in 1..Min(Len(chunk_list), 3) |-> k - 1] \o <<>>

IsStandardCuisine(c) == c \in Range(standard_cuisines)

ValidCuisines(cuisines) == SelectSeq(cuisines, IsStandardCuisine)

dict_extract_with_llm(json, chunk_list) ==
  Returned(<<"dict", json>>, Get(json, "confidence", F_ZERO), FirstThree(chunk_list))

cuisines_extract_with_llm(json, chunk_list) ==
  Returned(ValidCuisines(Get(json, "cuisines", <<>>)),
           IF Len(ValidCuisines(Get(json, "cuisines", <<>>))) # Len(Get(json, "cuisines", <<>>))
           THEN FMul(Get(json, "confidence", F_ZERO), FRatio(8, 10))
           ELSE Get(json, "confidence", F_ZERO),
           FirstThree(chunk_list))

extract_with_llm(field, json, chunk_list) ==
  IF field = "cuisines" THEN cuisines_extract_with_llm(json, chunk_list)
  ELSE dict_extract_with_llm(json, chunk_list)

(***************************************************************************)
(* app/extract/phone.py: PhoneExtractor                                    *)
(*                                                                         *)
(* A chunk carries the list _extract_phones_from_chunk finds in it and     *)
(* where a phone indicator stands in its text: nowhere ("none"), before    *)
(* its phone numbers ("before") or only after them ("after"). Chunk texts  *)
(* are taken to hold no line break, so that the joined text is one line.   *)
(* The patterns are tried in turn, so a number the "91" patterns match, as *)
(* 9123456780, comes first in the list of its chunk.                       *)
(***************************************************************************)
P_MOBILE_A == <<"9","8","7","6","5","4","3","2","1","0">>

P_MOBILE_B == <<"9","1","2","3","4","5","6","7","8","0">>

P_LAND_LONG == <<"0","2","2","-","2","3","4","5","1","2","3","4">>

MobileDigits(digits) ==
  IF Len(digits) = 10 THEN IsMobileLead(digits[1])
  ELSE IF Len(digits) = 12 /\ StartsWith(digits, <<"9", "1">>) THEN IsMobileLead(digits[3])
  ELSE IF Len(digits) = 13 /\ StartsWith(digits, Plus91) THEN IsMobileLead(digits[4])
  ELSE FALSE

is_mobile_number(phone) == MobileDigits(Digits(phone))

PhoneFromDigits(phone, digits) ==
  IF Len(digits) = 10 /\ IsMobileLead(digits[1]) THEN Plus91 \o digits
  ELSE IF Len(digits) = 12 /\ StartsWith(digits, <<"9", "1">>) THEN <<"+">> \o digits
  ELSE IF Len(digits) = 13 /\ StartsWith(digits, <<"9", "1">>)
       THEN Plus91 \o SubSeq(digits, 3, Len(digits))
  ELSE IF Len(digits) >= 10 /\ FirstMobileWindow(digits) # 0
       THEN Plus91 \o SubSeq(digits, FirstMobileWindow(digits),
                             FirstMobileWindow(digits) + 9)
  ELSE phone

phone_normalize_phone(phone) == PhoneFromDigits(phone, Digits(phone))

RECURSIVE PhoneCandidates(_)
PhoneCandidates(chunk_list) ==
  IF chunk_list = <<>> THEN <<>>
  ELSE chunk_list[1].phones \o PhoneCandidates(Tail(chunk_list))

RECURSIVE PhoneUsed(_, _)
PhoneUsed(chunk_list, i) ==
  IF chunk_list = <<>> THEN <<>>
  ELSE (IF chunk_list[1].phones # <<>> THEN <<i>> ELSE <<>>)
       \o PhoneUsed(Tail(chunk_list), i + 1)

MobileCandidates(candidates) == SelectSeq(candidates, is_mobile_number)

(* max(candidates, key=len): the first of the longest. *)
Longest(candidates) ==
  candidates[CHOOSE i \in 1..Len(candidates) :
               \A j \in 1..Len(candidates) :
                 \/ Len(candidates[j]) < Len(candidates[i])
                 \/ Len(candidates[j]) = Len(candidates[i]) /\ i <= j]

FallbackMutLongest(candidates) == Longest(candidates)

Fallback(candidates) ==
  IF MobileCandidates(candidates) # <<>> THEN MobileCandidates(candidates)[1]
  ELSE Longest(candidates)

(* if selected_phone and selected_phone in candidates *)
AcceptsAnswer(selected_phone, candidates) ==
  Truthy(selected_phone) /\ selected_phone \in Range(candidates)

PhonePick(selected_phone, candidates) ==
  IF AcceptsAnswer(selected_phone, candidates) THEN selected_phone
  ELSE Fallback(candidates)

(* The first indicator present in the joined text decides: it stands       *)
(* before an occurrence of the phone (+0.3) or only after them (+0.2).     *)
PhoneContext(chunk_list, phone) ==
  IF \A j \in 1..Len(chunk_list) : chunk_list[j].phone_indicator = "none" THEN "none"
  ELSE IF \E i, j \in 1..Len(chunk_list) :
            /\ phone \in Range(chunk_list[i].phones)
            /\ chunk_list[j].phone_indicator # "none"
            /\ j < i \/ (j = i /\ chunk_list[j].phone_indicator = "before")
       THEN "before"
  ELSE "after"

(* The chunks whose digits hold the digits of the phone. *)
PhoneCount(chunk_list, phone) ==
  Cardinality({i \in 1..Len(chunk_list) :
                 \E k \in 1..Len(chunk_list[i].phones) :
                   Contains(Digits(chunk_list[i].phones[k]), Digits(phone))})

AddIf(condition, confidence, boost) ==
  IF condition THEN FAdd(confidence, boost) ELSE confidence

ContextBoost(confidence, context) ==
  IF context = "before" THEN FAdd(confidence, FRatio(3, 10))
  ELSE IF context = "after" THEN FAdd(confidence, FRatio(2, 10))
  ELSE confidence

(* confidence = 0.0, then one += after the other, then min(confidence, 1.0) *)
calculate_confidence(phone, chunk_list) ==
  CHOOSE confidence \in
    { FMin(counted, F_ONE) :
        counted \in
          { AddIf(PhoneCount(chunk_list, phone) > 1, context, FRatio(1, 10)) :
              context \in
                { ContextBoost(mobile, PhoneContext(chunk_list, phone)) :
                    mobile \in
                      { AddIf(is_mobile_number(phone), base, FRatio(2, 10)) :
                          base \in {FAdd(F_ZERO, FRatio(3, 10))} } } } } : TRUE

PhoneResult(best_phone, chunk_list) ==
  Returned(phone_normalize_phone(best_phone),
           calculate_confidence(best_phone, chunk_list), PhoneUsed(chunk_list, 0))

(* return None, 0.0, [] *)
NoPhone ==
  [pc |-> "done", field |-> "phone", regex |-> Returned(None, F_ZERO, <<>>),
   attempted |-> FALSE, raised |-> "none", requests |-> 0,
   service |-> "none", llm |-> NotReturned,
   returned |-> Returned(None, F_ZERO, <<>>),
   candidates |-> <<>>, selected |-> None, answer |-> None]

(* extract returns with best_phone; regex is what the heuristics alone     *)
(* give. A call that waits for the service holds in results what extract   *)
(* returns for each candidate, _normalize_phone and _calculate_confidence  *)
(* being functions of best_phone and the chunks alone.                     *)
PhoneDone(chunk_list, candidates, best_phone, attempted, raised) ==
  [pc |-> "done", field |-> "phone",
   regex |-> PhoneResult(Fallback(candidates), chunk_list),
   attempted |-> attempted, raised |-> raised, requests |-> 0,
   service |-> "none", llm |-> NotReturned,
   returned |-> PhoneResult(best_phone, chunk_list),
   candidates |-> candidates, selected |-> best_phone, answer |-> None]

PhoneAwaiting(chunk_list, candidates) ==
  [pc |-> "awaiting", field |-> "phone",
   regex |-> PhoneResult(Fallback(candidates), chunk_list),
   attempted |-> TRUE, raised |-> "none", requests |-> 1,
   service |-> "none", llm |-> NotReturned,
   returned |-> NotReturned, candidates |-> candidates, selected |-> None, answer |-> None,
   results |-> [phone \in Range(candidates) |-> PhoneResult(phone, chunk_list)]]

(* _disambiguate_phones up to the request. *)
disambiguate_phones(chunk_list, candidates, enabled) ==
  IF Len(MobileCandidates(candidates)) = 1
  THEN PhoneDone(chunk_list, candidates, MobileCandidates(candidates)[1], FALSE, "none")
  ELSE IF ~enabled
  THEN PhoneDone(chunk_list, candidates, Fallback(candidates), TRUE, "LLMDisabled")
  ELSE PhoneAwaiting(chunk_list, candidates)

(* PhoneExtractor.extract up to its return or its request. *)
BeginPhone(chunk_list, candidates, enabled) ==
  IF candidates = <<>> THEN NoPhone
  ELSE IF Len(candidates) > 1 THEN disambiguate_phones(chunk_list, candidates, enabled)
  ELSE PhoneDone(chunk_list, candidates, candidates[1], FALSE, "none")

PhoneSelected(ext, best_phone, selected_phone) ==
  [ext EXCEPT !.pc = "done", !.answer = selected_phone, !.selected = best_phone,
              !.returned = ext.results[best_phone]]

(* _disambiguate_phones and extract from the return of generate_json on. *)
FinishPhone(ext, json, chunk_list) ==
  CHOOSE returned \in
    { PhoneSelected(ext, best_phone, selected_phone) :
        best_phone \in {PhonePick(Get(json, "phone", None), ext.candidates)},
        selected_phone \in {Get(json, "phone", None)} } : TRUE

MoreConfidentMutGE(llm_confidence, regex_confidence) ==
  ~FLess(llm_confidence, regex_confidence)

(* if llm_confidence > regex_confidence *)
MoreConfident(llm_confidence, regex_confidence) ==
  FLess(regex_confidence, llm_confidence)

(* extract after _extract_with_llm returned llm. *)
Decide(ext, llm) ==
  [ext EXCEPT !.pc = "done", !.llm = llm,
              !.returned = IF MoreConfident(llm.confidence, ext.regex.confidence)
                           THEN llm ELSE ext.regex]

(* extract from the return of generate_json on: a confidence that is no    *)
(* number raises TypeError (in confidence *= 0.8 or in the comparison),    *)
(* which extract catches.                                                  *)
FinishExtract(ext, json, chunk_list) ==
  IF ext.field = "phone" THEN FinishPhone(ext, json, chunk_list)
  ELSE IF ~IsNumber(Get(json, "confidence", F_ZERO))
  THEN [ext EXCEPT !.pc = "done", !.raised = "TypeError", !.returned = ext.regex]
  ELSE Decide(ext, extract_with_llm(ext.field, json, chunk_list))

H_OPEN == [open |-> T_OPEN, close |-> T_CLOSE]

NoChunk ==
  [address_indicator |-> FALSE, pincodes |-> <<>>, lines |-> <<>>,
   city |-> None, state |-> None,
   hours_indicator |-> FALSE, day_hours |-> <<>>, general_hours |-> <<>>,
   cuisine_hits |-> <<>>, indicators |-> 0, names |-> {},
   phones |-> <<>>, phone_indicator |-> "none"]

ChunkKinds ==
  { NoChunk,
    [NoChunk EXCEPT !.address_indicator = TRUE, !.pincodes = <<PIN_DELHI>>,
                    !.city = <<"D","e","l","h","i">>,
                    !.hours_indicator = TRUE, !.general_hours = <<H_OPEN>>,
                    !.cuisine_hits = [CHINESE |-> 2],
                    !.phones = <<P_MOBILE_A>>, !.phone_indicator = "before"],
    [NoChunk EXCEPT !.address_indicator = TRUE,
                    !.hours_indicator = TRUE,
                    !.day_hours = [monday |-> <<H_OPEN>>, tuesday |-> <<H_OPEN>>,
                                   wednesday |-> <<H_OPEN>>, thursday |-> <<H_OPEN>>],
                    !.cuisine_hits = [CHINESE |-> 1, ITALIAN |-> 1],
                    !.indicators = 1, !.names = {"CHINESE", "ITALIAN"},
                    !.phones = <<P_LAND_DASH, P_LAND_LONG>>],
    [NoChunk EXCEPT !.address_indicator = TRUE, !.pincodes = <<PIN_DELHI>>,
                    !.lines = <<<<"line", 35, TRUE>>, <<"line", 25, TRUE>>,
                                <<"line", 40, FALSE>>>>,
                    !.hours_indicator = TRUE,
                    !.day_hours = [friday |-> <<H_OPEN>>, saturday |-> <<H_OPEN>>,
                                   sunday |-> <<H_OPEN, H_OPEN>>],
                    !.general_hours = <<H_OPEN>>,
                    !.cuisine_hits = [CHINESE |-> 2, ITALIAN |-> 2, CAFE |-> 2],
                    !.phones = <<P_MOBILE_B, P_MOBILE_A>>, !.phone_indicator = "after"],
    [NoChunk EXCEPT !.address_indicator = TRUE, !.lines = <<<<"line", 25, TRUE>>>>,
                    !.hours_indicator = TRUE,
                    !.cuisine_hits = [MUGHLAI |-> 1],
                    !.phones = <<P_LAND_DASH>>, !.phone_indicator = "after"],
    [NoChunk EXCEPT !.cuisine_hits = [SEAFOOD |-> 2],
                    !.indicators = 4, !.names = {"SEAFOOD"},
                    !.phones = <<P_MOBILE_B, P_LAND_DASH>>] }

MaxChunks == 2

ChunkLists == UNION {[1..n -> ChunkKinds] : n \in 0..MaxChunks}

(* What the request to the service comes to: it fails (no connection, a    *)
(* timeout, an error status, an empty response), or it yields a text that  *)
(* parses or not, and whose JSON passes _validate_json_schema or not.      *)
ServiceFailures == {"ConnectError", "ReadTimeout", "HTTPStatusError", "EmptyResponse"}

NoAnswer(failure) ==
  [failure |-> failure, parseable |-> FALSE, schema_valid |-> FALSE, json |-> <<>>]

Answer(schema_valid, json) ==
  [failure |-> "none", parseable |-> TRUE, schema_valid |-> schema_valid, json |-> json]

LLMAnswers ==
  { NoAnswer(failure) : failure \in ServiceFailures \cup {"none"} }
  \cup
  { Answer(TRUE, [confidence |-> FRatio(95, 100), full |-> A_DELHI,
                  cuisines |-> <<"CHINESE">>, phone |-> P_MOBILE_B]),
    Answer(TRUE, [confidence |-> FRatio(1, 10), cuisines |-> <<"ITALIAN">>,
                  phone |-> P_LAND_DASH]),
    Answer(TRUE, [cuisines |-> <<"THAI">>, phone |-> None]),
    Answer(TRUE, [confidence |-> FRatio(3, 2), full |-> A_DELHI,
                  cuisines |-> <<"CAFE">>, phone |-> P_SHORT]),
    Answer(TRUE, [confidence |-> NotANumber, cuisines |-> <<"CAFE">>]),
    Answer(FALSE, [confidence |-> FRatio(95, 100), cuisines |-> <<"CHINESE", "THAI">>]),
    Answer(FALSE, [confidence |-> FRatio(1, 10), full |-> A_DELHI]),
    Answer(FALSE, [confidence |-> NotANumber, full |-> A_DELHI]) }

InitExtract ==
  /\ EmptyTables
  /\ NoBackground
  /\ llm_enabled \in BOOLEAN
  /\ args = <<>>
  /\ result = NoCall
  /\ chunks \in ChunkLists
  /\ extraction = Idle

(* AddressExtractor.extract(chunks), up to its return or its request. *)
ExtractAddress ==
  /\ extraction.pc = "idle"
  /\ \E schema_loaded \in BOOLEAN :
       extraction' = BeginExtract("address", address_extract_with_regex(chunks),
                                  ADDRESS_THRESHOLD, schema_loaded, llm_enabled)
  /\ UNCHANGED <<background, tables, llm_enabled, calls, chunks>>

(* HoursExtractor.extract(chunks), up to its return or its request. *)
ExtractHours ==
  /\ extraction.pc = "idle"
  /\ \E schema_loaded \in BOOLEAN :
       extraction' = BeginExtract("hours", hours_extract_with_regex(chunks),
                                  HOURS_THRESHOLD, schema_loaded, llm_enabled)
  /\ UNCHANGED <<background, tables, llm_enabled, calls, chunks>>

(* CuisineExtractor.extract(chunks), up to its return or its request. *)
ExtractCuisines ==
  /\ extraction.pc = "idle"
  /\ \E schema_loaded \in BOOLEAN, cuisines_list \in Orderings(FoundCuisines(chunks)) :
       extraction' = BeginExtract("cuisines",
                                  cuisines_extract_with_regex(chunks, cuisines_list),
                                  CUISINES_THRESHOLD, schema_loaded, llm_enabled)
  /\ UNCHANGED <<background, tables, llm_enabled, calls, chunks>>

(* What became of the request: the failure, output that json.loads and     *)
(* _fix_json cannot read, or a reply.                                      *)
ServiceOutcome(answer) ==
  IF answer.failure # "none" THEN answer.failure
  ELSE IF ~answer.parseable THEN "unparseable"
  ELSE "replied"

EnhancementReplyMutRetry ==
  /\ extraction.pc = "awaiting"
  /\ extraction.requests < 3
  /\ extraction' = [extraction EXCEPT !.requests = @ + 1]
  /\ UNCHANGED <<background, tables, llm_enabled, calls, chunks>>

(* The service answers, or fails to, and extract returns. *)
EnhancementReply ==
  /\ extraction.pc = "awaiting"
  /\ \E answer \in LLMAnswers :
       extraction' = FinishExtract([extraction EXCEPT !.service = ServiceOutcome(answer)],
                                   generate_json(answer), chunks)
  /\ UNCHANGED <<background, tables, llm_enabled, calls, chunks>>

NextExtract == ExtractAddress \/ ExtractHours \/ ExtractCuisines \/ EnhancementReply

SpecExtract == InitExtract /\ [][NextExtract]_vars

(* PhoneExtractor.extract(chunks), up to its return or its request. *)
ExtractPhone ==
  /\ extraction.pc = "idle"
  /\ extraction' = BeginPhone(chunks, PhoneCandidates(chunks), llm_enabled)
  /\ UNCHANGED <<background, tables, llm_enabled, calls, chunks>>

(* A call of any of the four extractors. The request to the service ends:  *)
(* the client waits for the reply with a timeout.                          *)
NextExtractors == NextExtract \/ ExtractPhone

SpecExtractors == InitExtract /\ [][NextExtractors]_vars

SpecExtractorsLive == SpecExtractors /\ WF_vars(EnhancementReply)

(***************************************************************************)
(* Properties of the extractors                                            *)
(***************************************************************************)
Extracting == extraction.pc \in {"awaiting", "done"}

ClaimedThreshold(field) ==
  IF field = "address" THEN FRatio(7, 10) ELSE FRatio(6, 10)

BelowThreshold(ext) == FLess(ext.regex.confidence, ClaimedThreshold(ext.field))

DeterministicAccepted(ext) ==
  /\ ext.pc = "done"
  /\ ~ext.attempted
  /\ ext.requests = 0
  /\ ext.returned = ext.regex

(* C10: in the address, hours and cuisines extractors the enhancement      *)
(* phase is attempted only when the confidence of the deterministic phase  *)
(* is strictly below the threshold of the field (0.7, 0.6, 0.6); at or     *)
(* above it the deterministic result is returned and no request is made.   *)
C10_EnhancementOnlyBelowThreshold ==
  Extracting =>
    /\ extraction.field \in {"address", "hours", "cuisines"}
    /\ extraction.attempted => BelowThreshold(extraction)
    /\ extraction.requests > 0 => BelowThreshold(extraction)
    /\ ~BelowThreshold(extraction) => DeterministicAccepted(extraction)

(* A deterministic confidence of exactly the threshold, with the service   *)
(* enabled: the result is accepted as it is.                               *)
C10_Witness ==
  /\ Extracting
  /\ llm_enabled
  /\ extraction.regex.confidence = ClaimedThreshold(extraction.field)
  /\ DeterministicAccepted(extraction)

Enhanced(ext) == ext.pc = "done" /\ ext.attempted /\ ext.raised = "none" /\ ext.requests = 1

(* C11: when the enhancement phase returns a result, the extractor returns *)
(* that result only if its confidence is strictly greater than the         *)
(* deterministic confidence; with an equal or lower confidence it returns  *)
(* the deterministic value, confidence and fragment indices unchanged.     *)
C11_ReplacesOnlyIfStrictlyGreater ==
  Extracting /\ Enhanced(extraction) =>
    IF FLess(extraction.regex.confidence, extraction.llm.confidence)
    THEN extraction.returned = extraction.llm
    ELSE /\ extraction.returned.value = extraction.regex.value
         /\ extraction.returned.confidence = extraction.regex.confidence
         /\ extraction.returned.used_chunks = extraction.regex.used_chunks

(* The enhancement result has exactly the deterministic confidence, which  *)
(* is not zero, and other fragment indices: the deterministic one is kept. *)
C11_Witness ==
  /\ Extracting
  /\ Enhanced(extraction)
  /\ FLess(F_ZERO, extraction.regex.confidence)
  /\ extraction.llm.confidence = extraction.regex.confidence
  /\ extraction.llm.used_chunks # extraction.regex.used_chunks
  /\ extraction.returned = extraction.regex

NoService(ext) ==
  \/ ext.raised = "LLMDisabled"
  \/ ext.service \in ServiceFailures \cup {"unparseable"}

(* C12: when the enhancement service is disabled, cannot be reached, times *)
(* out, fails, or answers with output that cannot be parsed, each of the   *)
(* four extractors returns its deterministic result, whatever the list of  *)
(* fragments, the empty one included; no exception leaves the extractor.   *)
C12_NoServiceGivesDeterministic ==
  extraction.pc = "done" /\ NoService(extraction) =>
    /\ extraction.returned = extraction.regex
    /\ DOMAIN extraction.returned = {"value", "confidence", "used_chunks"}

C12_Witness ==
  /\ extraction.pc = "done"
  /\ extraction.field = "address"
  /\ extraction.service = "unparseable"
  /\ FLess(F_ZERO, extraction.regex.confidence)
  /\ extraction.returned = extraction.regex

(***************************************************************************)
(* generate_json on its own: the outcome of the request is drawn from the  *)
(* failures and from parseable outputs that pass or fail the schema, with  *)
(* a confidence that is absent, a number, or no number.                    *)
(***************************************************************************)
GenerateConfidences ==
  {FRatio(1, 10), FRatio(3, 10), FRatio(95, 100), FRatio(3, 2), NotANumber}

GeneratePayloads ==
  {<<>>, [full |-> A_DELHI], [cuisines |-> <<"CHINESE">>], [phone |-> P_MOBILE_A]}

GenerateInputs ==
  { NoAnswer(failure) : failure \in ServiceFailures \cup {"none"} }
  \cup { Answer(schema_valid, payload) :
           schema_valid \in BOOLEAN, payload \in GeneratePayloads }
  \cup { Answer(schema_valid, Put(payload, "confidence", confidence)) :
           schema_valid \in BOOLEAN, payload \in GeneratePayloads,
           confidence \in GenerateConfidences }

InitGenerate ==
  /\ EmptyTables
  /\ NoBackground
  /\ llm_enabled \in BOOLEAN
  /\ args \in {<<answer>> : answer \in GenerateInputs}
  /\ result = NoCall
  /\ chunks = <<>>
  /\ extraction = Idle

(* The call generate_json(prompt, schema) whose request ends as args[1]. *)
CallGenerateJson ==
  /\ ~result.done
  /\ result' = IF llm_enabled
                THEN [done |-> TRUE, fn |-> "generate_json", raised |-> "none",
                      value |-> generate_json(args[1])]
                ELSE [done |-> TRUE, fn |-> "generate_json", raised |-> "LLMDisabled",
                      value |-> None]
  /\ UNCHANGED <<background, tables, llm_enabled, args, extractors>>

NextGenerate == CallGenerateJson

SpecGenerate == InitGenerate /\ [][NextGenerate]_vars

Generated == result.done /\ result.fn = "generate_json" /\ result.raised = "none"

SchemaInvalid(answer) ==
  answer.failure = "none" /\ answer.parseable /\ ~answer.schema_valid

(* C13: output that parses as JSON and fails the schema validation is      *)
(* still returned by generate_json, as it was parsed and not as an error,  *)
(* with its confidence lowered to the smaller of the reported confidence   *)
(* and 0.3.                                                                *)
C13_SchemaInvalidAcceptedAndCapped ==
  Generated /\ SchemaInvalid(args[1]) =>
    /\ "error" \notin DOMAIN result.value
    /\ \A k \in DOMAIN args[1].json \ {"confidence"} :
         k \in DOMAIN result.value /\ result.value[k] = args[1].json[k]
    /\ result.value.confidence =
         FMin(Get(args[1].json, "confidence", F_ZERO), SCHEMA_INVALID_CAP)

IsResult(returned) == DOMAIN returned = {"value", "confidence", "used_chunks"}

(* C14: every call of an extractor ends, in the one state in which it has  *)
(* returned; there it yields one (value, confidence, indices) result and   *)
(* nothing happens after it; at most one request goes to the service in    *)
(* a call, and a call that waits for the service is answered and returns.  *)
C14_TerminatesWithOneResult ==
  /\ [](Extracting => extraction.requests <= 1)
  /\ [](extraction.pc = "done" => IsResult(extraction.returned))
  /\ [][extraction.pc = "done" => extraction' = extraction]_vars
  /\ (extraction.pc = "awaiting" ~> extraction.pc = "done")

C14_Witness ==
  /\ extraction.pc = "done"
  /\ extraction.requests = 1
  /\ extraction.service = "ReadTimeout"
  /\ IsResult(extraction.returned)

InUnitInterval(confidence) == ~FLess(confidence, F_ZERO) /\ ~FLess(F_ONE, confidence)

(* C15: the confidence of every result an extractor returns lies between   *)
(* 0 and 1, both after the deterministic phase alone and when the result   *)
(* of the enhancement phase is the one returned.                           *)
C15_ConfidenceInUnitInterval ==
  extraction.pc = "done" => InUnitInterval(extraction.returned.confidence)

(***************************************************************************)
(* app/extract/router.py: ExtractionRouter.extract_all                     *)
(*                                                                         *)
(* One call runs the four extractors in turn. What each extractor does is  *)
(* an input of the call: the reply its request gets, and whether it raises *)
(* instead of returning.                                                   *)
(***************************************************************************)
InfoTypes == <<"address", "phone", "hours", "cuisines">>

(* The extractor of info_type on chunk_list, from its call to its return. *)
BeginField(info_type, chunk_list, cuisines_list, enabled) ==
  IF info_type = "address"
  THEN BeginExtract("address", address_extract_with_regex(chunk_list),
                    ADDRESS_THRESHOLD, TRUE, enabled)
  ELSE IF info_type = "phone"
  THEN BeginPhone(chunk_list, PhoneCandidates(chunk_list), enabled)
  ELSE IF info_type = "hours"
  THEN BeginExtract("hours", hours_extract_with_regex(chunk_list),
                    HOURS_THRESHOLD, TRUE, enabled)
  ELSE BeginExtract("cuisines", cuisines_extract_with_regex(chunk_list, cuisines_list),
                    CUISINES_THRESHOLD, TRUE, enabled)

ReturnField(ext, answer, chunk_list) ==
  IF ext.pc = "awaiting"
  THEN FinishExtract([ext EXCEPT !.service = ServiceOutcome(answer)],
                     generate_json(answer), chunk_list).returned
  ELSE ext.returned

(* [chunks[i].to_dict() for i in used_chunks if i < len(chunks)] *)
SourceChunks(used_chunks, chunk_list) ==
  [k \in 1..Len(SelectSeq(used_chunks, LAMBDA i : i < Len(chunk_list))) |->
     chunk_list[SelectSeq(used_chunks, LAMBDA i : i < Len(chunk_list))[k] + 1]]

RouterEntry(returned, chunk_list) ==
  [value |-> returned.value, confidence |-> returned.confidence,
   used_chunks |-> returned.used_chunks,
   source_chunks |-> SourceChunks(returned.used_chunks, chunk_list)]

(* The entry of the except branch. *)
FailedEntry ==
  [value |-> None, confidence |-> F_ZERO, used_chunks |-> <<>>,
   source_chunks |-> <<>>, error |-> <<"error">>]

RECURSIVE RouteEachMutAbort(_, _, _, _, _)
RouteEachMutAbort(results, info_types, outcomes, raising, chunk_list) ==
  IF info_types = <<>> THEN results
  ELSE IF info_types[1] \in raising THEN results
  ELSE RouteEachMutAbort(Put(results, info_types[1],
                             RouterEntry(outcomes[info_types[1]], chunk_list)),
                         Tail(info_types), outcomes, raising, chunk_list)

(* The loop over self.extractors.items() with its try and except. *)
RECURSIVE RouteEach(_, _, _, _, _)
RouteEach(results, info_types, outcomes, raising, chunk_list) ==
  IF info_types = <<>> THEN results
  ELSE RouteEach(Put(results, info_types[1],
                     IF info_types[1] \in raising THEN FailedEntry
                     ELSE RouterEntry(outcomes[info_types[1]], chunk_list)),
                 Tail(info_types), outcomes, raising, chunk_list)

extract_all(outcomes, raising, chunk_list) ==
  RouteEach(<<>>, InfoTypes, outcomes, raising, chunk_list)

(* The requests of the extractors in replied get a confident answer, the   *)
(* others time out.                                                        *)
RouterAnswers ==
  { [info_type \in Range(InfoTypes) |->
       IF info_type \in replied
       THEN Answer(TRUE, [confidence |-> FRatio(95, 100), full |-> A_DELHI,
                          cuisines |-> <<"CHINESE">>, phone |-> P_MOBILE_B])
       ELSE NoAnswer("ReadTimeout")] :
      replied \in {{}, {"address", "hours"}, {"phone", "cuisines"}, Range(InfoTypes)} }

RouterFaults ==
  {{}, {"phone"}, {"hours"}, {"address", "cuisines"}, Range(InfoTypes)}

(* ExtractionRouter.extract_all(chunks). *)
ExtractAll ==
  /\ ~result.done
  /\ \E raising \in RouterFaults, answers \in RouterAnswers,
        cuisines_list \in Orderings(FoundCuisines(chunks)) :
       \E outcomes \in
            {[info_type \in Range(InfoTypes) |->
                ReturnField(BeginField(info_type, chunks, cuisines_list, llm_enabled),
                            answers[info_type], chunks)]} :
         /\ args' = [raising |-> raising, outcomes |-> outcomes]
         /\ result' = [done |-> TRUE, fn |-> "extract_all", raised |-> "none",
                       value |-> extract_all(outcomes, raising, chunks)]
  /\ UNCHANGED <<background, tables, llm_enabled, extractors>>

NextRouter == ExtractAll

SpecRouter == InitExtract /\ [][NextRouter]_vars

Routed == result.done /\ result.fn = "extract_all"

(* C16: extract_all returns a map with exactly the keys address, phone,    *)
(* hours and cuisines and does not raise; the entry of an extractor that   *)
(* raised holds a null value, confidence 0.0, no indices and the error;    *)
(* every other entry is the one the call gives when no extractor raises.   *)
C16_RouterIsolatesFaults ==
  Routed =>
    /\ result.raised = "none"
    /\ DOMAIN result.value = {"address", "phone", "hours", "cuisines"}
    /\ \A info_type \in args.raising :
         /\ result.value[info_type].value = None
         /\ result.value[info_type].confidence = F_ZERO
         /\ result.value[info_type].used_chunks = <<>>
         /\ "error" \in DOMAIN result.value[info_type]
    /\ \A info_type \in Range(InfoTypes) \ args.raising :
         /\ result.value[info_type] = extract_all(args.outcomes, {}, chunks)[info_type]
         /\ result.value[info_type].value = args.outcomes[info_type].value
         /\ "error" \notin DOMAIN result.value[info_type]

C16_Witness ==
  /\ Routed
  /\ args.raising = {"address", "cuisines"}
  /\ result.value["address"].value = None
  /\ result.value["phone"].value # None
  /\ result.value["hours"].confidence # F_ZERO
  /\ "error" \notin DOMAIN result.value["hours"]

(***************************************************************************)
(* Properties of the phone extractor                                       *)
(***************************************************************************)
PhoneDecided ==
  extraction.pc = "done" /\ extraction.field = "phone" /\ Len(extraction.candidates) >= 2

Mobiles(candidates) == {i \in 1..Len(candidates) : is_mobile_number(candidates[i])}

AnswerIsCandidate(ext) ==
  ext.requests = 1 /\ ext.answer # None /\ ext.answer \in Range(ext.candidates)

(* C17: with two or more candidates, the one mobile candidate is selected  *)
(* when there is exactly one; otherwise the answer of the service is       *)
(* selected only if it is one of the candidates as written; otherwise the  *)
(* first mobile candidate, or without any the longest candidate. The       *)
(* selected phone is always one of the candidates.                         *)
C17_PhoneDisambiguation ==
  PhoneDecided =>
    /\ extraction.selected \in Range(extraction.candidates)
    /\ extraction.returned.value = phone_normalize_phone(extraction.selected)
    /\ IF Cardinality(Mobiles(extraction.candidates)) = 1
       THEN \A i \in Mobiles(extraction.candidates) :
              extraction.selected = extraction.candidates[i]
       ELSE IF AnswerIsCandidate(extraction)
       THEN extraction.selected = extraction.answer
       ELSE IF Mobiles(extraction.candidates) # {}
       THEN \E i \in Mobiles(extraction.candidates) :
              /\ extraction.selected = extraction.candidates[i]
              /\ \A j \in Mobiles(extraction.candidates) : i <= j
       ELSE \A j \in 1..Len(extraction.candidates) :
              Len(extraction.candidates[j]) <= Len(extraction.selected)

C17_Witness ==
  /\ PhoneDecided
  /\ Cardinality(Mobiles(extraction.candidates)) = 2
  /\ AnswerIsCandidate(extraction)
  /\ extraction.selected = extraction.answer
  /\ extraction.selected # extraction.candidates[1]

(* C18: the phone extractor sends a request to the service only when more  *)
(* than one mobile candidate exists; with one mobile candidate or none no  *)
(* request is made.                                                        *)
C18_AsksOnlyForSeveralMobiles ==
  Extracting /\ extraction.field = "phone" /\ extraction.requests > 0 =>
    Cardinality(Mobiles(extraction.candidates)) > 1

(* The chunks hold nothing an extractor looks for, and the enhancement     *)
(* phase gave nothing that was returned.                                   *)
FoundNothing(ext) ==
  /\ ext.pc = "done"
  /\ \A i \in 1..Len(chunks) : chunks[i] = NoChunk
  /\ ext.returned = ext.regex

(* C19: an extractor that finds nothing, in an empty list of fragments or  *)
(* in fragments without data, returns a null value with confidence 0.0,    *)
(* whichever of address, phone, hours and cuisines it extracts.            *)
C19_NothingFoundIsNull ==
  FoundNothing(extraction) =>
    /\ extraction.returned.value = None
    /\ extraction.returned.confidence = F_ZERO

(***************************************************************************)
(* Properties of the per-restaurant loop of _run_pipeline                  *)
(***************************************************************************)
ProcessStep == last'.op = "process" /\ clock' = clock + 1

MaxRuns == 2

(* What a run holds when it reaches resolve_restaurant_entity. *)
RunStart(o, geo, cuisines_list) ==
  [pc |-> "resolve",
   data |-> ApplyGeocode(normalize_restaurant_data(
                           build_restaurant_data(o.seed, o.ext), cuisines_list), geo),
   prov |-> build_provenance_records(o.ext, Get(o.seed, "website", None), FALSE),
   rid |-> None, minted |-> FALSE, ok |-> FALSE]

RunInputs ==
  UNION { { RunStart(o, geo, cuisines_list) :
              geo \in GeoAnswers,
              cuisines_list \in
                Orderings(map_cuisines_to_vocab(
                  Get(build_restaurant_data(o.seed, o.ext), "cuisines", <<>>))) } :
          o \in Observations }

InitRace ==
  /\ EmptyTables
  /\ pipeline_tasks = <<>>
  /\ fetches = <<>>
  /\ runs \in [1..MaxRuns -> RunInputs]
  /\ llm_enabled = FALSE
  /\ args = <<>>
  /\ result = NoCall
  /\ chunks = <<>>
  /\ extraction = Idle

(* cli.py:148, resolve.py:263-279. *)
Resolve(p) ==
  /\ runs[p].pc = "resolve"
  /\ \E existing_id \in {find_existing_restaurant(store, runs[p].data)} :
       /\ runs' = [runs EXCEPT ![p].pc = "persist",
                               ![p].rid = OrNewId(existing_id, uuid_count + 1),
                               ![p].minted = ~Truthy(existing_id)]
       /\ uuid_count' = IF Truthy(existing_id) THEN uuid_count ELSE uuid_count + 1
  /\ UNCHANGED <<store, provenance, clock, last, pipeline_tasks, fetches,
                 llm_enabled, calls, extractors>>

(* cli.py:151-158, persist.py:141-194. *)
Persist(p) ==
  /\ runs[p].pc = "persist"
  /\ \E restaurant_data \in {Put(runs[p].data, "restaurant_id", runs[p].rid)} :
     \E res \in {upsert_restaurant(store, provenance, restaurant_data, runs[p].prov,
                                    clock + 1, uuid_count + 1)} :
       /\ store' = res.store
       /\ provenance' = res.provenance
       /\ clock' = clock + 1
       /\ runs' = [runs EXCEPT ![p].pc = "done", ![p].ok = res.ok]
       /\ last' = [op |-> "process", obs |-> runs[p].data, data |-> restaurant_data,
                   prov |-> runs[p].prov, rid |-> runs[p].rid,
                   ok |-> res.ok, pre_store |-> store, pre_prov |-> provenance]
  /\ UNCHANGED <<uuid_count, pipeline_tasks, fetches, llm_enabled, calls, extractors>>

NextRace == \E p \in DOMAIN runs : Resolve(p) \/ Persist(p)

SpecRace == InitRace /\ [][NextRace]_vars

RunsDone == \A p \in DOMAIN runs : runs[p].pc = "done" /\ runs[p].ok

SameEntity(p, q) == runs[p].data = runs[q].data

RowsNamed(st, name) == {i \in DOMAIN st : st[i].canonical_name = name}

MaxUrls == 3

MaxConcurrency == 2

FetchUrls == {"http://a", "http://b", "http://c"}

(* (content, metadata) of fetch_url: content, or None with the reason in the metadata. *)
FetchOutcomes == {"content", "no_content"}

UrlLists == UNION {[1..n -> FetchUrls] : n \in 0..MaxUrls}

FetchStart(urls, concurrency) ==
  [urls |-> urls, concurrency |-> concurrency,
   task |-> [i \in DOMAIN urls |-> "created"],
   results |-> {}, returned |-> FALSE]

InitFetch ==
  /\ EmptyTables
  /\ pipeline_tasks = <<>>
  /\ runs = <<>>
  /\ fetches \in {FetchStart(urls, concurrency) :
                    urls \in UrlLists, concurrency \in 0..MaxConcurrency}
  /\ llm_enabled = FALSE
  /\ args = <<>>
  /\ result = NoCall
  /\ chunks = <<>>
  /\ extraction = Idle

InFlight(f) == {i \in DOMAIN f.task : f.task[i] = "fetching"}

(* asyncio.Semaphore(concurrency): a free permit. *)
SlotFreeMutUnbounded(f) == TRUE

SlotFree(f) == Cardinality(InFlight(f)) < f.concurrency

(* results[url] = (content, metadata) *)
SetResult(results, url, outcome) ==
  {e \in results : e[1] # url} \cup {<<url, outcome>>}

ResultKeys(results) == {e[1] : e \in results}

(* async with semaphore: the coroutine of urls[i] enters. *)
Acquire(i) ==
  /\ fetches.task[i] = "created"
  /\ SlotFree(fetches)
  /\ fetches' = [fetches EXCEPT !.task[i] = "fetching"]
  /\ UNCHANGED <<tables, pipeline_tasks, runs, llm_enabled, calls, extractors>>

(* fetch_url returns; the outcome is stored and the semaphore released. *)
FetchSingleDone(i) ==
  /\ fetches.task[i] = "fetching"
  /\ \E outcome \in FetchOutcomes :
       fetches' = [fetches EXCEPT
                     !.task[i] = "done",
                     !.results = SetResult(@, fetches.urls[i], outcome)]
  /\ UNCHANGED <<tables, pipeline_tasks, runs, llm_enabled, calls, extractors>>

(* asyncio.gather has all its results; fetch_urls returns results. *)
FetchUrlsReturn ==
  /\ ~fetches.returned
  /\ \A i \in DOMAIN fetches.task : fetches.task[i] = "done"
  /\ fetches' = [fetches EXCEPT !.returned = TRUE]
  /\ UNCHANGED <<tables, pipeline_tasks, runs, llm_enabled, calls, extractors>>

AcquireSome == \E i \in DOMAIN fetches.task : Acquire(i)

FetchSome == \E i \in DOMAIN fetches.task : FetchSingleDone(i)

NextFetch == AcquireSome \/ FetchSome \/ FetchUrlsReturn

SpecFetch == InitFetch /\ [][NextFetch]_vars

(* The event loop resumes a coroutine that can run: a waiter when a permit *)
(* is free, a request when its response or its timeout arrives, the        *)
(* gatherer when all are done.                                             *)
SpecFetchLive ==
  /\ SpecFetch
  /\ WF_vars(AcquireSome)
  /\ \A i \in 1..MaxUrls : WF_vars(i \in DOMAIN fetches.task /\ FetchSingleDone(i))
  /\ WF_vars(FetchUrlsReturn)

BoundedInFlight == Cardinality(InFlight(fetches)) <= fetches.concurrency

AllFetched == \A i \in DOMAIN fetches.task : fetches.task[i] = "done"

CompleteResults ==
  fetches.returned =>
    /\ AllFetched
    /\ ResultKeys(fetches.results) = Range(fetches.urls)
    /\ \A e, g \in fetches.results : e[1] = g[1] => e = g

MaxPasses == 2

PincodePrefixes == { <<>>,
    <<" ">>,
    <<"P","I","N"," ">> }

PincodeLeads == {"0", "1", "5", "8", "9"}

PincodeBodies == { <<"6","0","0","0","1">>,
    <<"6","0","0","0">>,
    <<"6","0","0","0","1","1">>,
    <<"6","0"," ","0","0","1">>,
    <<"6","-","0","0","0","1">> }

PincodeInputs ==
  { pre \o <<lead>> \o body \o suf :
      pre \in PincodePrefixes, lead \in PincodeLeads, body \in PincodeBodies,
      suf \in {<<>>, <<" ">>} }
  \cup {<<>>, <<"5","6","0","0">>}

(* A mobile number, a landline of area code 22 and one of area code 80, as *)
(* the ten digits after the country code.                                  *)
N_MOBILE == <<"9","8","7","6","5","4","3","2","1","0">>

N_LAND_22 == <<"2","2","1","2","3","4","5","6","7","8">>

N_LAND_80 == <<"8","0","1","2","3","4","5","6","7","8">>

PhoneNumbers == {N_MOBILE, N_LAND_22, N_LAND_80}

(* The number written plain, in two groups of five, or area code-number.   *)
PhoneBodies(n) ==
  { n,
    SubSeq(n, 1, 5) \o <<" ">> \o SubSeq(n, 6, 10),
    SubSeq(n, 1, 2) \o <<"-">> \o SubSeq(n, 3, 10) }

(* No prefix, the country code, or the trunk prefix. *)
PhonePrefixes == { <<>>,
    <<"+","9","1">>,
    <<"+","9","1","-">>,
    <<"+","9","1"," ">>,
    <<"0">> }

PhoneForms(n) == {pre \o body : pre \in PhonePrefixes, body \in PhoneBodies(n)}

PhoneInputs ==
  UNION {PhoneForms(n) : n \in PhoneNumbers}
  \cup { pre \o n : pre \in { <<"+","9","1"," ","0"," ">>,
          <<"9","1","0">>,
          <<"0","0","9","1"," ">>,
          <<"P","h",":"," ">>,
          <<" ">> },
                    n \in PhoneNumbers }
  \cup { <<>>,
       <<"1","2","3","4","5">>,
       <<" ","0","2","2","-","1","2","3","4","5","6","7","8"," ">>,
       <<"0","2","2","-","1","2","3","4","5","6","7">>,
       <<"+","9","1"," ","1","2","3","4","5"," ","6","7","8","9","0">>,
       <<"1","2","3","4","5","6","7","8","9","0","1","2","3">> }

NamePrefixes == { <<>>,
    <<"T","h","e"," ">>,
    <<"t","h","e"," ">>,
    <<"H","o","t","e","l"," ">>,
    <<"N","E","W"," ">>,
    <<" ">> }

NameSeconds == { <<>>,
    <<"h","o","t","e","l"," ">>,
    <<"n","e","w"," ">> }

NameCores == { <<"t","a","j">>,
    <<"T","A","J"," "," ","m","a","h","a","l">>,
    <<"o","'","n","e","i","l"," ","2","g","o">> }

NameSuffixes == { <<>>,
    <<" ","R","e","s","t","a","u","r","a","n","t">>,
    <<" ","d","h","a","b","a">>,
    <<" ","h","o","t","e","l">>,
    <<" ","h","o","t","e","l"," ","r","e","s","t","a","u","r","a","n","t">>,
    <<" ">> }

NameInputs ==
  { pre \o second \o core \o suf :
      pre \in NamePrefixes, second \in NameSeconds, core \in NameCores,
      suf \in NameSuffixes }
  \cup {<<>>, <<"t","h","e"," ","r","e","s","t","a","u","r","a","n","t">>}

NormalizeCalls ==
  {<<"normalize_pincode", 1, x>> : x \in PincodeInputs}
  \cup {<<"normalize_phone", 1, x>> : x \in PhoneInputs}
  \cup {<<"normalize_restaurant_name", 1, x>> : x \in NameInputs}
  \cup UNION { {<<"normalize_restaurant_data", 1, [phone |-> x], [phone |-> y]>> :
                  x \in PhoneForms(n), y \in PhoneForms(n)} : n \in PhoneNumbers }

InitNormalize ==
  /\ EmptyTables
  /\ NoBackground
  /\ llm_enabled = FALSE
  /\ args \in NormalizeCalls
  /\ result = NoCall
  /\ chunks = <<>>
  /\ extraction = Idle

CallReturned(fn, value) == [done |-> TRUE, fn |-> fn, value |-> value]

CallNormalizePincode ==
  /\ ~result.done
  /\ args[1] = "normalize_pincode"
  /\ result' = CallReturned(args[1], normalize_pincode(args[3]))
  /\ UNCHANGED <<background, tables, llm_enabled, args, extractors>>

CallNormalizePhone ==
  /\ ~result.done
  /\ args[1] = "normalize_phone"
  /\ result' = CallReturned(args[1], normalize_phone(args[3]))
  /\ UNCHANGED <<background, tables, llm_enabled, args, extractors>>

CallNormalizeName ==
  /\ ~result.done
  /\ args[1] = "normalize_restaurant_name"
  /\ result' = CallReturned(args[1], normalize_restaurant_name(args[3]))
  /\ UNCHANGED <<background, tables, llm_enabled, args, extractors>>

(* normalize_restaurant_data on each record of the pair. *)
CallNormalizeData ==
  /\ ~result.done
  /\ args[1] = "normalize_restaurant_data"
  /\ result' = CallReturned(args[1], <<normalize_restaurant_data(args[3], <<>>),
                                   normalize_restaurant_data(args[4], <<>>)>>)
  /\ UNCHANGED <<background, tables, llm_enabled, args, extractors>>

(* The returned string is the input of the next call of the same function. *)
NormalizeAgain ==
  /\ result.done
  /\ args[1] # "normalize_restaurant_data"
  /\ args[2] < MaxPasses
  /\ args' = <<args[1], args[2] + 1, result.value>>
  /\ result' = NoCall
  /\ UNCHANGED <<background, tables, llm_enabled, extractors>>

NextNormalize ==
  \/ CallNormalizePincode
  \/ CallNormalizePhone
  \/ CallNormalizeName
  \/ CallNormalizeData
  \/ NormalizeAgain

SpecNormalize == InitNormalize /\ [][NextNormalize]_vars

Normalized(fn) == result.done /\ result.fn = fn

(* C23: normalize_pincode returns the digits of its input exactly when     *)
(* there are six of them and the first is one of 1-8, and null otherwise.  *)
C23_PincodeSixDigitsLeadOneToEight ==
  Normalized("normalize_pincode") =>
    result.value =
      (IF /\ Len(Digits(args[3])) = 6
          /\ Digits(args[3])[1] \in {"1", "2", "3", "4", "5", "6", "7", "8"}
       THEN Digits(args[3]) ELSE None)

Window(digits, i) == SubSeq(digits, i, i + 9)

StartsWith91 == <<"9", "1">>

(* The value the statement of normalize_phone gives for an input; with     *)
(* extra_digit the 13-digit form 91, one more digit, ten digits is read as *)
(* its last ten digits.                                                    *)
PhoneContract(phone, extra_digit) ==
  IF Len(Digits(phone)) = 10 /\ IsMobileLead(Digits(phone)[1])
  THEN Plus91 \o Digits(phone)
  ELSE IF /\ Len(Digits(phone)) = 12
          /\ StartsWith(Digits(phone), StartsWith91)
          /\ IsMobileLead(Digits(phone)[3])
  THEN Plus91 \o Window(Digits(phone), 3)
  ELSE IF /\ extra_digit
          /\ Len(Digits(phone)) = 13
          /\ StartsWith(Digits(phone), StartsWith91)
          /\ IsMobileLead(Digits(phone)[4])
  THEN Plus91 \o Window(Digits(phone), 4)
  ELSE IF /\ Len(Digits(phone)) > 10
          /\ \E i \in 1..(Len(Digits(phone)) - 9) : IsMobileLead(Digits(phone)[i])
  THEN Plus91 \o Window(Digits(phone),
                        CHOOSE i \in 1..(Len(Digits(phone)) - 9) :
                          /\ IsMobileLead(Digits(phone)[i])
                          /\ \A j \in 1..(i - 1) : ~IsMobileLead(Digits(phone)[j]))
  ELSE IF Len(Digits(phone)) >= 10 THEN Strip(phone)
  ELSE None

C25_PhoneFormatInsensitive ==
  Normalized("normalize_restaurant_data") =>
    result.value[1].phone = result.value[2].phone

(* C26: normalize_restaurant_name is idempotent.  A call whose input is    *)
(* the value returned by an earlier call returns its input.                *)
C26_NameIdempotent ==
  (Normalized("normalize_restaurant_name") /\ args[2] > 1) => result.value = args[3]

(***************************************************************************)
(* The score of a pair with lexical evidence only                          *)
(***************************************************************************)
LEXICAL_MAX == FRatio(5, 10)

(* Neither within 2.0 km of each other (or a coordinate missing) nor the   *)
(* phones nor the websites match.                                          *)
LexicalOnly(ev) ==
  /\ ~(ev.distance_km < MID_M)
  /\ ~ev.phone_match
  /\ ~ev.website_match

(* C27: lexical evidence alone never suffices.  A pair that is not within  *)
(* 2.0 km (or lacks a coordinate) and matches neither on phone nor on      *)
(* website scores at most 0.50 whatever its name and address similarities, *)
(* and is judged distinct.                                                 *)
C27_LexicalEvidenceNeverSuffices ==
  (Scored /\ LexicalOnly(result.value.evidence)) =>
    /\ ~FLess(LEXICAL_MAX, result.value.score)
    /\ ~result.value.is_same

(* Equal names and equal addresses 2.0 km apart, nothing else: 0.50. *)
C27_Witness ==
  /\ Scored
  /\ LexicalOnly(result.value.evidence)
  /\ result.value.evidence.distance_km = MID_M
  /\ result.value.evidence.name_similarity = F_ONE
  /\ result.value.evidence.address_similarity = F_ONE
  /\ result.value.score = LEXICAL_MAX
  /\ ~result.value.is_same

(***************************************************************************)
(* app/cli.py: the same observation processed again                        *)
(*                                                                         *)
(* The pipeline is run MaxRepeats times in sequence on one observation and *)
(* an empty database: each pass resolves against the rows the earlier      *)
(* passes stored and then upserts.                                         *)
(***************************************************************************)
MaxRepeats == 2

OptionalField(k, values) == {<<>>} \cup {k :> v : v \in values}

(* A named observation with any combination of coordinates, phone, website *)
(* and extracted address.                                                  *)
RepeatObservations ==
  { [seed |-> website @@ phone @@ coordinates @@ [name |-> name], ext |-> ext] :
      name \in {N_TOIT, N_THE_TOIT, N_MOTI},
      coordinates \in {<<>>, [lat |-> 10000, lon |-> 77000]},
      phone \in OptionalField("phone", {P_MOBILE, P_LAND_DASH}),
      website \in OptionalField("website", {URL_TOIT}),
      ext \in {NoExtraction, PageExtraction} }

RepeatInputs ==
  UNION { { RunStart(o, geo, cuisines_list) :
              geo \in GeoAnswers,
              cuisines_list \in
                Orderings(map_cuisines_to_vocab(
                  Get(build_restaurant_data(o.seed, o.ext), "cuisines", <<>>))) } :
          o \in RepeatObservations }

InitReprocess ==
  /\ EmptyTables
  /\ pipeline_tasks = <<>>
  /\ fetches = <<>>
  /\ runs \in {[p \in 1..MaxRepeats |-> input] : input \in RepeatInputs}
  /\ llm_enabled = FALSE
  /\ args = <<>>
  /\ result = NoCall
  /\ chunks = <<>>
  /\ extraction = Idle

(* A pass starts when the pass before it has ended. *)
InTurn(p) == \A q \in 1..(p - 1) : runs[q].pc = "done"

NextReprocess ==
  \E p \in DOMAIN runs : InTurn(p) /\ (Resolve(p) \/ Persist(p))

SpecReprocess == InitReprocess /\ [][NextReprocess]_vars

(* C28: sequential re-processing does not duplicate.  When an observation  *)
(* with a non-empty name has been processed twice in sequence against an   *)
(* initially empty store, the second pass has resolved to the id created   *)
(* by the first and the store holds exactly one restaurant.                *)
C28_ReprocessingDoesNotDuplicate ==
  (/\ runs[1].pc = "done" /\ runs[1].ok
   /\ runs[2].pc = "done"
   /\ SameEntity(1, 2)
   /\ Truthy(Get(runs[1].data, "canonical_name", <<>>)))
  => /\ runs[2].rid = runs[1].rid
     /\ Len(store) = 1

(***************************************************************************)
(* app/api.py: the pipeline tasks of the API                               *)
(*                                                                         *)
(* pipeline_tasks is the module's dict, here the sequence of its entries   *)
(* in the order of their creation (the task id is the position).  The      *)
(* background coroutines of several requests run in one event loop and     *)
(* interleave at the awaits of _run_pipeline; settings.llm_enabled is one  *)
(* attribute of the process.  progress is counted in tenths.  The fields   *)
(* pc, requested, calls, seen and requests are the coroutine's position    *)
(* and arguments and what its extractors did.                              *)
(***************************************************************************)
MaxTasks == 2

MaxCalls == 1

NewTask(llm, now) ==
  [status |-> "running", progress |-> 0, started_at |-> now,
   completed_at |-> NoneNum, results |-> None,
   pc |-> "queued", requested |-> llm, calls |-> 0, seen |-> {}, requests |-> 0]

(* pipeline_tasks[task_id].update({...}) of the two ends of the coroutine. *)
TaskUpdateMutNoTime(task, status, progress, now, results) ==
  [task EXCEPT !.status = status, !.progress = progress, !.results = results,
               !.pc = "done"]

TaskUpdate(task, status, progress, now, results) ==
  [task EXCEPT !.status = status, !.progress = progress, !.completed_at = now,
               !.results = results, !.pc = "done"]

TaskResults(task, restaurants) ==
  <<"dict", [restaurants_processed |-> Len(restaurants),
             llm_enabled |-> task.requested]>>

InitTasks ==
  /\ EmptyTables
  /\ NoBackground
  /\ llm_enabled \in BOOLEAN
  /\ args = <<>>
  /\ result = NoCall
  /\ chunks = <<>>
  /\ extraction = Idle

(* POST /pipeline/run: the entry is created and the coroutine queued. *)
RunPipeline ==
  /\ Len(pipeline_tasks) < MaxTasks
  /\ \E llm \in BOOLEAN :
       pipeline_tasks' = Append(pipeline_tasks, NewTask(llm, clock + 1))
  /\ clock' = clock + 1
  /\ UNCHANGED <<store, provenance, uuid_count, last, runs, fetches, llm_enabled,
                 calls, extractors>>

(* run_pipeline_background up to the first await of _run_pipeline; init_db *)
(* may raise, which ends the task at once.                                 *)
BackgroundStart(t) ==
  /\ pipeline_tasks[t].pc = "queued"
  /\ llm_enabled' = pipeline_tasks[t].requested
  /\ \E raised \in BOOLEAN :
       IF raised
       THEN /\ pipeline_tasks' =
                 [pipeline_tasks EXCEPT
                    ![t] = TaskUpdate(@, "failed", 0, clock + 1, None)]
            /\ clock' = clock + 1
       ELSE /\ pipeline_tasks' =
                 [pipeline_tasks EXCEPT ![t].progress = 2, ![t].pc = "pipeline"]
            /\ clock' = clock
  /\ UNCHANGED <<store, provenance, uuid_count, last, runs, fetches, calls, extractors>>

(* An extractor of the task calls generate_json, which reads the setting   *)
(* at the time of the call and sends a request when it is on.              *)
TaskGenerateJson(t) ==
  /\ pipeline_tasks[t].pc = "pipeline"
  /\ pipeline_tasks[t].calls < MaxCalls
  /\ pipeline_tasks' =
       [pipeline_tasks EXCEPT
          ![t].calls = @ + 1,
          ![t].seen = @ \cup {llm_enabled},
          ![t].requests = IF llm_enabled THEN @ + 1 ELSE @]
  /\ UNCHANGED <<tables, runs, fetches, llm_enabled, calls, extractors>>

(* The awaited _run_pipeline ends, by returning or by raising. *)
PipelineEnds(t) ==
  /\ pipeline_tasks[t].pc = "pipeline"
  /\ \E pc \in {"returned", "raised"} :
       pipeline_tasks' = [pipeline_tasks EXCEPT ![t].pc = pc]
  /\ UNCHANGED <<tables, runs, fetches, llm_enabled, calls, extractors>>

(* The statements after the await: the results are read and the entry is   *)
(* completed, or get_all_restaurants raises and the entry is failed.       *)
TaskCompleted(t) ==
  /\ pipeline_tasks[t].pc = "returned"
  /\ \E raised \in BOOLEAN :
       pipeline_tasks' =
         [pipeline_tasks EXCEPT
            ![t] = IF raised THEN TaskUpdate(@, "failed", 0, clock + 1, None)
                   ELSE TaskUpdate(@, "completed", 10, clock + 1,
                                   TaskResults(@, store))]
  /\ clock' = clock + 1
  /\ UNCHANGED <<store, provenance, uuid_count, last, runs, fetches, llm_enabled,
                 calls, extractors>>

(* except Exception: the entry is failed. *)
TaskFailed(t) ==
  /\ pipeline_tasks[t].pc = "raised"
  /\ pipeline_tasks' =
       [pipeline_tasks EXCEPT ![t] = TaskUpdate(@, "failed", 0, clock + 1, None)]
  /\ clock' = clock + 1
  /\ UNCHANGED <<store, provenance, uuid_count, last, runs, fetches, llm_enabled,
                 calls, extractors>>

TaskResumes(t) == t \in DOMAIN pipeline_tasks /\ (TaskCompleted(t) \/ TaskFailed(t))

NextTasks ==
  \/ RunPipeline
  \/ \E t \in DOMAIN pipeline_tasks :
       \/ BackgroundStart(t)
       \/ TaskGenerateJson(t)
       \/ PipelineEnds(t)
       \/ TaskCompleted(t)
       \/ TaskFailed(t)

SpecTasks == InitTasks /\ [][NextTasks]_vars

(* The event loop resumes a coroutine whose awaited call has ended. *)
SpecTasksLive ==
  /\ SpecTasks
  /\ \A t \in 1..MaxTasks : WF_vars(TaskResumes(t))

TerminalStatus(status) == status \in {"completed", "failed"}

PipelineEnded(t) ==
  t \in DOMAIN pipeline_tasks /\ pipeline_tasks[t].pc \in {"returned", "raised"}

TaskTerminal(t) ==
  t \in DOMAIN pipeline_tasks /\ TerminalStatus(pipeline_tasks[t].status)

(* Entries are created running and are never removed; a status changes     *)
(* only from running, to completed or failed.                              *)
TaskStep ==
  /\ Len(pipeline_tasks') >= Len(pipeline_tasks)
  /\ \A t \in DOMAIN pipeline_tasks' :
       IF t \in DOMAIN pipeline_tasks
       THEN pipeline_tasks'[t].status # pipeline_tasks[t].status =>
              /\ pipeline_tasks[t].status = "running"
              /\ TerminalStatus(pipeline_tasks'[t].status)
       ELSE pipeline_tasks'[t].status = "running"

CompletedAtIffTerminal ==
  \A t \in DOMAIN pipeline_tasks :
    /\ pipeline_tasks[t].status \in {"running", "completed", "failed"}
    /\ (pipeline_tasks[t].completed_at # NoneNum) <=> TaskTerminal(t)

(* C29: the life of a pipeline task.  Every entry is created running; its  *)
(* status changes at most once, to completed or failed, and never again;   *)
(* completed_at is set exactly when the status is terminal; and every task *)
(* whose pipeline run has ended, by return or by exception, eventually has *)
(* a terminal status.                                                      *)
C29_TaskLifecycle ==
  /\ [][TaskStep]_vars
  /\ []CompletedAtIffTerminal
  /\ \A t \in 1..MaxTasks : PipelineEnded(t) ~> TaskTerminal(t)

(* Two tasks have ended, one completed after a return, one failed. *)
C29_Witness ==
  /\ Len(pipeline_tasks) = 2
  /\ \E t, u \in DOMAIN pipeline_tasks :
       /\ pipeline_tasks[t].status = "completed"
       /\ pipeline_tasks[t].completed_at # NoneNum
       /\ pipeline_tasks[u].status = "failed"
       /\ pipeline_tasks[u].calls > 0
       /\ pipeline_tasks[u].completed_at > pipeline_tasks[t].completed_at

(* C30: the enhancement setting of a task is its own.  Every call of       *)
(* generate_json by a task's extractors sees the llm_enabled requested for *)
(* that task, and a task requested with the enhancement disabled sends no  *)
(* enhancement request.                                                    *)
C30_EnhancementSettingIsolated ==
  \A t \in DOMAIN pipeline_tasks :
    /\ pipeline_tasks[t].seen \subseteq {pipeline_tasks[t].requested}
    /\ ~pipeline_tasks[t].requested => pipeline_tasks[t].requests = 0

====
